---- MODULE Spec2Model ----
(***************************************************************************)
(* A model of edgar/financials.py: the extraction of financial statements  *)
(* from EDGAR filings.                                                     *)
(*                                                                         *)
(* Python strings are sequences of one-character strings, so that the      *)
(* substring tests, the regular expressions and the stripping the code     *)
(* performs are computed and not assumed. The characters are those of      *)
(* Latin-1 (U+0000 to U+00FF) and two more, written with a name: the       *)
(* em-dash U+2014, "EMDASH", and the right single quotation mark U+2019,   *)
(* "RSQUO". Python's None is the value None below.                         *)
(* A number is held in one form only (see "the numbers of the program"),   *)
(* and a float is the IEEE 754 double Python computes.                     *)
(***************************************************************************)
EXTENDS Integers, Sequences, FiniteSets, TLC

\* ------------------------------------------------------------------ bounds

\* Longest raw text of a cell handed to the value normalizer.
MaxTextLen == 3
\* Most header cells of one header row after the title cell.
MaxHeaderCells == 2
\* Most body rows of a report table.
MaxRows == 2
\* Most cells of a body row.
MaxCells == 3
\* Most line items of a legacy statement section, besides its fixed lines.
MaxItems == 2
\* Most FinancialReport objects made by callers.
MaxReports == 3
\* Most periods of the list of a report.
MaxPeriods == 2

\* -------------------------------------------------------------- characters

DigitChars == <<"0", "1", "2", "3", "4", "5", "6", "7", "8", "9">>
\* the uppercase letters, A to Z and those of Latin-1, and the lowercase
\* letter of each at the same position
UpperChars == <<"A", "B", "C", "D", "E", "F", "G", "H", "I", "J", "K", "L", "M",
                "N", "O", "P", "Q", "R", "S", "T", "U", "V", "W", "X", "Y", "Z",
                "À", "Á", "Â", "Ã", "Ä", "Å", "Æ", "Ç", "È", "É", "Ê", "Ë", "Ì",
                "Í", "Î", "Ï", "Ð", "Ñ", "Ò", "Ó", "Ô", "Õ", "Ö", "Ø", "Ù", "Ú",
                "Û", "Ü", "Ý", "Þ">>
LowerChars == <<"a", "b", "c", "d", "e", "f", "g", "h", "i", "j", "k", "l", "m",
                "n", "o", "p", "q", "r", "s", "t", "u", "v", "w", "x", "y", "z",
                "à", "á", "â", "ã", "ä", "å", "æ", "ç", "è", "é", "ê", "ë", "ì",
                "í", "î", "ï", "ð", "ñ", "ò", "ó", "ô", "õ", "ö", "ø", "ù", "ú",
                "û", "ü", "ý", "þ">>
\* the lowercase characters that are the lowercase of no character of the model
OtherLowerChars == <<"ª", "µ", "º", "ß", "ÿ">>
\* the characters of \w that are neither letters nor decimal digits
OtherWordChars == <<"_", "²", "³", "¹", "¼", "½", "¾">>

Range(s) == {s[i] : i \in 1..Len(s)}

\* [0-9] and \d of the re module, and the digits of int and float
IsDigit(c) == c \in Range(DigitChars)
\* str.isupper and str.islower of one character
IsUpperCh(c) == c \in Range(UpperChars)
IsLowerCh(c) == c \in Range(LowerChars) \cup Range(OtherLowerChars)
\* [A-Za-z] of the re module
IsAlpha(c) == \E i \in 1..26 : c = UpperChars[i] \/ c = LowerChars[i]
\* \w of the re module
IsWordCh(c) == IsUpperCh(c) \/ IsLowerCh(c) \/ IsDigit(c) \/ c \in Range(OtherWordChars)
\* the white space of str.strip, strptime and \s: tab, line feed, vertical
\* tab, form feed, carriage return, the separators U+001C to U+001F, the
\* space, the next-line character U+0085 and the no-break space U+00A0
Whitespace == {"\t", "\n", "", "\f", "\r", "", "", "", "", " ", "", " "}
\* the white space int and float take around a number: the separators
\* U+001C to U+001F are not part of it
NumberSpace == {"\t", "\n", "", "\f", "\r", " ", "", " "}
\* \s of the re module
IsSpaceCh(c) == c \in Whitespace

DigitVal(c) == (CHOOSE i \in 1..10 : DigitChars[i] = c) - 1

\* str.lower, one character
LowerCh(c) == IF IsUpperCh(c) THEN LowerChars[CHOOSE i \in 1..Len(UpperChars) : UpperChars[i] = c] ELSE c

\* None of Python; no string of the model is this sequence
None == <<"None">>

\* ----------------------------------------------------------------- strings

\* str.lower
Lower(s) == [i \in 1..Len(s) |-> LowerCh(s[i])]

\* sub in s
Contains(s, sub) == \E i \in 1..(Len(s) - Len(sub) + 1) : SubSeq(s, i, i + Len(sub) - 1) = sub

\* s.startswith(p), s.endswith(p)
StartsWith(s, p) == Len(p) <= Len(s) /\ SubSeq(s, 1, Len(p)) = p
EndsWith(s, p) == Len(p) <= Len(s) /\ SubSeq(s, Len(s) - Len(p) + 1, Len(s)) = p

\* s.replace(c, "") for a one-character c
RemoveCh(s, c) == SelectSeq(s, LAMBDA x : x # c)

\* s.strip(chars): the characters of the set cs taken off both ends
RECURSIVE LStrip(_, _)
LStrip(s, cs) == IF s # <<>> /\ Head(s) \in cs THEN LStrip(Tail(s), cs) ELSE s
RECURSIVE RStrip(_, _)
RStrip(s, cs) == IF s # <<>> /\ s[Len(s)] \in cs THEN RStrip(SubSeq(s, 1, Len(s) - 1), cs) ELSE s
Strip(s, cs) == RStrip(LStrip(s, cs), cs)

\* str.isupper: no lowercase letter and at least one uppercase letter
IsUpperStr(s) == (\A i \in 1..Len(s) : ~IsLowerCh(s[i])) /\ (\E i \in 1..Len(s) : IsUpperCh(s[i]))

\* list.index: the first position of x in the sequence, 0 when it has none
IndexOf(seq, x) == IF \E i \in 1..Len(seq) : seq[i] = x
                   THEN CHOOSE i \in 1..Len(seq) : seq[i] = x /\ \A j \in 1..(i - 1) : seq[j] # x
                   ELSE 0

\* ----------------------------------------------------------------- numbers

Pow10(n) == IF n = 0 THEN 1 ELSE IF n = 1 THEN 10 ELSE IF n = 2 THEN 100 ELSE IF n = 3 THEN 1000
            ELSE IF n = 4 THEN 10000 ELSE IF n = 5 THEN 100000 ELSE IF n = 6 THEN 1000000
            ELSE IF n = 7 THEN 10000000 ELSE IF n = 8 THEN 100000000 ELSE 1000000000

\* m * 10^e with the tens moved from the mantissa to the exponent; zero is [0, 0]
RECURSIVE Dec(_, _)
Dec(m, e) == IF m = 0 THEN [m |-> 0, e |-> 0]
             ELSE IF m % 10 = 0 THEN Dec(m \div 10, e + 1)
             ELSE [m |-> m, e |-> e]

Num(n) == Dec(n, 0)

\* the digits of s read as a natural number (s holds digits only)
RECURSIVE DigitsVal(_)
DigitsVal(s) == IF s = <<>> THEN 0 ELSE 10 * DigitsVal(SubSeq(s, 1, Len(s) - 1)) + DigitVal(s[Len(s)])

AllDigits(s) == \A i \in 1..Len(s) : IsDigit(s[i])

\* ---- natural numbers of any size (the int of Python, the mantissa of a
\* ---- float): the sequence of the digits to the base 2^15 = 32768, the
\* ---- lowest first, the highest not zero. The operators halve their
\* ---- arguments, so that the evaluation nests no deeper than the logarithm
\* ---- of the size.

RECURSIVE LOfNat(_)
LOfNat(n) == IF n = 0 THEN <<>> ELSE <<n % 32768>> \o LOfNat(n \div 32768)
\* the number below 2^31 a sequence stands for
LToNat(l) == (IF Len(l) >= 1 THEN l[1] ELSE 0) + (IF Len(l) >= 2 THEN 32768 * l[2] ELSE 0)
             + (IF Len(l) >= 3 THEN 1073741824 * l[3] ELSE 0)
\* l without the zeros on top
LTrim(l) == SubSeq(l, 1, CHOOSE k \in 0..Len(l) : (k = 0 \/ l[k] # 0) /\ \A i \in (k + 1)..Len(l) : l[i] = 0)
\* the number of bits of a digit, and of a number
DigitBits(x) == IF x = 0 THEN 0 ELSE CHOOSE k \in 1..15 : 2^(k - 1) <= x /\ x < 2^k
LBitLen(l) == IF l = <<>> THEN 0 ELSE 15 * (Len(l) - 1) + DigitBits(l[Len(l)])

\* the digits of l * c + carry, as many as l has, and the carry out of them:
\* the low half first, its carry into the high half
RECURSIVE LMulDigits(_, _, _)
LMulBoth(lo, hi) == [d |-> lo.d \o hi.d, carry |-> hi.carry]
LMulHigh(lo, rest, c) == LMulBoth(lo, LMulDigits(rest, c, lo.carry))
LMulDigits(l, c, carry) ==
    IF l = <<>> THEN [d |-> <<>>, carry |-> carry]
    ELSE IF Len(l) = 1 THEN [d |-> <<(l[1] * c + carry) % 32768>>, carry |-> (l[1] * c + carry) \div 32768]
    ELSE LMulHigh(LMulDigits(SubSeq(l, 1, Len(l) \div 2), c, carry), SubSeq(l, Len(l) \div 2 + 1, Len(l)), c)
\* l * c + carry for a c and a carry below 2^16
LMulAll(r) == r.d \o LOfNat(r.carry)
LMulSmall(l, c, carry) == LMulAll(LMulDigits(l, c, carry))

\* the quotient of rem * 32768^Len(l) + l by c, with as many digits as l has,
\* and the remainder: the high half first, its remainder into the low half
RECURSIVE LDivDigits(_, _, _)
LDivBoth(hi, lo) == [q |-> lo.q \o hi.q, r |-> lo.r]
LDivLow(hi, rest, c) == IF hi.q = <<>> THEN LDivDigits(rest, c, hi.r) ELSE LDivBoth(hi, LDivDigits(rest, c, hi.r))
LDivDigits(l, c, rem) ==
    IF l = <<>> THEN [q |-> <<>>, r |-> rem]
    ELSE IF Len(l) = 1 THEN [q |-> <<(rem * 32768 + l[1]) \div c>>, r |-> (rem * 32768 + l[1]) % c]
    ELSE LDivLow(LDivDigits(SubSeq(l, Len(l) \div 2 + 1, Len(l)), c, rem), SubSeq(l, 1, Len(l) \div 2), c)
\* the quotient and the remainder of l by a c below 2^16; the quotient keeps its zeros on top
LDivSmall(l, c) == LDivDigits(l, c, 0)

\* l * b^k for b = 5 or 10
RECURSIVE LMulPow(_, _, _)
LMulPow(l, b, k) == IF l = <<>> \/ k = 0 THEN l
                    ELSE IF k <= 4 THEN LMulSmall(l, b^k, 0)
                    ELSE LMulPow(LMulPow(l, b, k \div 2), b, k - k \div 2)
\* p.q \div b^k for b = 5 or 10, and whether a division has left a remainder (sticky)
LDivPart(d, sticky) == [q |-> LTrim(d.q), sticky |-> sticky \/ d.r # 0]
RECURSIVE LDivPow(_, _, _)
LDivPow(p, b, k) == IF p.q = <<>> \/ k = 0 THEN p
                    ELSE IF k <= 4 THEN LDivPart(LDivSmall(p.q, b^k), p.sticky)
                    ELSE LDivPow(LDivPow(p, b, k \div 2), b, k - k \div 2)
\* l * 2^s
LShl(l, s) == IF l = <<>> THEN <<>> ELSE LMulSmall([i \in 1..(s \div 15) |-> 0] \o l, 2^(s % 15), 0)
\* l \div 2^s, and whether a bit that is 1 has been cut off (sticky)
LShr(l, s) == LDivPart(LDivSmall(SubSeq(l, (s \div 15) + 1, Len(l)), 2^(s % 15)),
                       \E i \in 1..(s \div 15) : i <= Len(l) /\ l[i] # 0)
\* l + 1: the first digit that is not 32767 goes up, the digits below it become 0
LSuccAt(l, k) == [i \in 1..(k - 1) |-> 0] \o (IF k > Len(l) THEN <<1>> ELSE <<l[k] + 1>> \o SubSeq(l, k + 1, Len(l)))
LSucc(l) == LSuccAt(l, CHOOSE k \in 1..(Len(l) + 1) : (k > Len(l) \/ l[k] < 32767) /\ \A i \in 1..(k - 1) : l[i] = 32767)
LIsOdd(l) == l # <<>> /\ Head(l) % 2 = 1
\* the digits of s after the number acc: acc * 10^Len(s) + s
RECURSIVE LAppendDigits(_, _)
LAppendDigits(acc, s) ==
    IF acc = <<>> /\ Len(s) <= 4 THEN LOfNat(DigitsVal(s))
    ELSE IF Len(s) <= 4 THEN LMulSmall(acc, 10^Len(s), DigitsVal(s))
    ELSE LAppendDigits(LAppendDigits(acc, SubSeq(s, 1, Len(s) \div 2)), SubSeq(s, Len(s) \div 2 + 1, Len(s)))
\* the digits of s read as a natural number of any size
LOfDigits(s) == LAppendDigits(<<>>, s)
\* how many bits that are 0 the number ends with, at its low end (l not zero)
LowZerosAt(l, k) == 15 * (k - 1) + (CHOOSE z \in 0..14 : l[k] % 2^(z + 1) # 0 /\ l[k] % 2^z = 0)
LowZeros(l) == LowZerosAt(l, CHOOSE k \in 1..Len(l) : l[k] # 0 /\ \A i \in 1..(k - 1) : l[i] = 0)
\* the bits of a number, the lowest first, and the number of the bits
BitsOf(l) == [i \in 1..LBitLen(l) |-> (l[((i - 1) \div 15) + 1] \div 2^((i - 1) % 15)) % 2]
RECURSIVE BitsVal(_, _, _)
BitsVal(bits, from, to) == IF from > to \/ from > Len(bits) THEN 0 ELSE bits[from] + 2 * BitsVal(bits, from + 1, to)
LimbsOf(bits) == [j \in 1..((Len(bits) + 14) \div 15) |-> BitsVal(bits, 15 * (j - 1) + 1, 15 * j)]

\* ---- the numbers of the program
\*
\* Every finite float and every int is sign * n * 2^x for a natural number n
\* and an integer x. The model holds such a number in one way only, so that
\* the == of Python is the = of the model (5 == 5.0, and -0.0 == 0):
\*   [m, e]             m * 10^e, m not divisible by ten and |m| < 2^31,
\*                      e >= -13; zero is [0, 0]
\*   [sign, bits, exp]  sign * n * 2^exp for the odd n whose bits, the lowest
\*                      first, are bits: the numbers that have no such m and e
\* The infinities are [inf |-> 1] and [inf |-> -1], and nan is [nan |-> TRUE].
IsDecimal(v) == "m" \in DOMAIN v
IsBinary(v) == "bits" \in DOMAIN v
IsInf(v) == "inf" \in DOMAIN v
IsNan(v) == "nan" \in DOMAIN v

\* n \div 5^k, and whether the division has left a remainder
Fives(n, k) == LDivPow([q |-> n, sticky |-> FALSE], 5, k)
\* n with its factors of five taken out, max of them at most: n = r.n * 5^r.e
RECURSIVE StripFives(_, _, _)
StripFives(n, e, max) ==
    IF max - e >= 16 /\ ~Fives(n, 16).sticky THEN StripFives(Fives(n, 16).q, e + 16, max)
    ELSE IF max - e >= 4 /\ ~Fives(n, 4).sticky THEN StripFives(Fives(n, 4).q, e + 4, max)
    ELSE IF max - e >= 1 /\ ~Fives(n, 1).sticky THEN StripFives(Fives(n, 1).q, e + 1, max)
    ELSE [n |-> n, e |-> e]

\* sign * odd * 2^x for an odd number odd, as the model holds it
Binary(sign, odd, x) == [sign |-> sign, bits |-> BitsOf(odd), exp |-> x]
\* x >= 0, and s is odd without the fives that go with the twos
CanonWhole(sign, odd, x, s) == IF LBitLen(s.n) + x - s.e <= 31
                               THEN [m |-> sign * LToNat(LShl(s.n, x - s.e)), e |-> s.e]
                               ELSE Binary(sign, odd, x)
\* x < 0, and p is odd * 5^-x
CanonPart(sign, odd, x, p) == IF LBitLen(p) <= 31 THEN [m |-> sign * LToNat(p), e |-> x] ELSE Binary(sign, odd, x)
CanonOdd(sign, odd, x) == IF x >= 0 THEN CanonWhole(sign, odd, x, StripFives(odd, 0, x))
                          ELSE IF x >= -13 /\ LBitLen(odd) <= 31 THEN CanonPart(sign, odd, x, LMulPow(odd, 5, 0 - x))
                          ELSE Binary(sign, odd, x)
\* sign * n * 2^exp as the model holds it, n not zero
Canon(sign, n, exp) == CanonOdd(sign, LShr(n, LowZeros(n)).q, exp + LowZeros(n))

\* -v
Neg(v) == IF IsDecimal(v) THEN [v EXCEPT !.m = 0 - @]
          ELSE IF IsBinary(v) THEN [v EXCEPT !.sign = 0 - @]
          ELSE IF IsInf(v) THEN [v EXCEPT !.inf = 0 - @]
          ELSE v

\* v * 10^k for an int v: the product of two ints is exact
Scale(v, k) == IF IsDecimal(v) THEN Dec(v.m, v.e + k)
               ELSE Canon(v.sign, LMulPow(LimbsOf(v.bits), 10, k), v.exp)

\* ---- float: the IEEE 754 double
\*
\* The float nearest to a number (n + f) * 2^j, for a natural number n and a
\* fraction 0 <= f < 1 that is not zero exactly when sticky holds: the
\* mantissa keeps 53 bits, or fewer where the exponent has reached -1074, and
\* a number half way between two floats goes to the one with the even
\* mantissa. The result is [n, exp] for n * 2^exp, or [inf |-> 1] beyond the
\* largest float. A sticky number has 55 bits or more.
DoubleOrInf(mant, e) == IF LBitLen(mant) + e > 1024 THEN [inf |-> 1] ELSE [n |-> mant, exp |-> e]
\* q with the bit guard and the rest cut off below it
RoundHalfEven(q, guard, rest, e) == DoubleOrInf(IF guard /\ (rest \/ LIsOdd(q)) THEN LSucc(q) ELSE q, e)
\* sh is n without the bits below the guard bit
RoundCut(sh, sticky, e) == RoundHalfEven(LShr(sh.q, 1).q, LIsOdd(sh.q), sh.sticky \/ sticky, e)
RoundAt(n, j, sticky, e) == IF e - j <= 0 THEN DoubleOrInf(n, j) ELSE RoundCut(LShr(n, e - j - 1), sticky, e)
\* the exponent of the lowest bit the mantissa keeps
DoubleExp(n, j) == IF LBitLen(n) + j - 53 < -1074 THEN -1074 ELSE LBitLen(n) + j - 53
RoundDouble(n, j, sticky) == RoundAt(n, j, sticky, DoubleExp(n, j))

\* the float nearest to n * 10^x * 2^j, n not zero: for x < 0 the quotient of
\* n * 2^shift by 10^-x, with a shift that gives it 55 bits or more
RoundQuotient(d, j) == RoundDouble(d.q, j, d.sticky)
QuotientShift(n, x) == IF 56 + LBitLen(LMulPow(<<1>>, 10, 0 - x)) - LBitLen(n) < 0 THEN 0
                       ELSE 56 + LBitLen(LMulPow(<<1>>, 10, 0 - x)) - LBitLen(n)
NearestDouble(n, x, j) ==
    IF x >= 0 THEN RoundDouble(LMulPow(n, 10, x), j, FALSE)
    ELSE RoundQuotient(LDivPow([q |-> LShl(n, QuotientShift(n, x)), sticky |-> FALSE], 10, 0 - x), j - QuotientShift(n, x))

\* sign * n * 10^x * 2^j as a float
FloatMade(sign, r) == IF IsInf(r) THEN [inf |-> sign]
                      ELSE IF r.n = <<>> THEN [m |-> 0, e |-> 0]
                      ELSE Canon(sign, r.n, r.exp)
FloatOf(sign, n, x, j) == IF n = <<>> THEN [m |-> 0, e |-> 0] ELSE FloatMade(sign, NearestDouble(n, x, j))

\* v * 10^k for a float v and the int 10^k, k <= 22: the float nearest to the product
FloatScale(v, k) ==
    IF IsInf(v) \/ IsNan(v) \/ k = 0 THEN v
    ELSE FloatOf(IF IsBinary(v) THEN v.sign ELSE IF v.m < 0 THEN -1 ELSE 1,
                 IF IsBinary(v) THEN LimbsOf(v.bits) ELSE LOfNat(IF v.m < 0 THEN 0 - v.m ELSE v.m),
                 IF IsBinary(v) THEN k ELSE v.e + k,
                 IF IsBinary(v) THEN v.exp ELSE 0)

\* int(v) of a finite float v: the fraction cut off, toward zero
TruncBits(sign, q) == IF q = <<>> THEN [m |-> 0, e |-> 0] ELSE Canon(sign, q, 0)
Trunc(v) ==
    IF IsBinary(v) THEN (IF v.exp >= 0 THEN v ELSE TruncBits(v.sign, LShr(LimbsOf(v.bits), 0 - v.exp).q))
    ELSE IF v.e >= 0 THEN v
    ELSE IF v.e < -9 THEN Num(0)
    ELSE IF v.m >= 0 THEN Dec(v.m \div Pow10(0 - v.e), 0)
    ELSE Neg(Dec((0 - v.m) \div Pow10(0 - v.e), 0))

\* ------------------------------------------------------ int() and float()

\* the text without a leading sign, and the sign
Unsigned(s) == IF s # <<>> /\ Head(s) \in {"+", "-"} THEN Tail(s) ELSE s
SignOf(s) == IF s # <<>> /\ Head(s) = "-" THEN -1 ELSE 1

\* digits, with single underscores between digits allowed
DigitGroup(g) == /\ g # <<>>
                 /\ \A i \in 1..Len(g) : IsDigit(g[i]) \/ g[i] = "_"
                 /\ IsDigit(g[1]) /\ IsDigit(g[Len(g)])
                 /\ \A i \in 1..(Len(g) - 1) : ~(g[i] = "_" /\ g[i + 1] = "_")
\* the digits of a group, without zeros in front
RECURSIVE NoLeadingZeros(_)
NoLeadingZeros(s) == IF s # <<>> /\ Head(s) = "0" THEN NoLeadingZeros(Tail(s)) ELSE s
GroupDigits(g) == NoLeadingZeros(SelectSeq(g, IsDigit))

\* a natural number of any size as the model holds it
NatOf(sign, digits) == IF Len(digits) <= 9 THEN Dec(sign * DigitsVal(digits), 0)
                       ELSE Canon(sign, LOfDigits(digits), 0)

\* int(s): white space around, a sign, then a group of digits. [ok |-> FALSE]
\* is the ValueError.
IntOfText(t) == IF DigitGroup(Unsigned(t))
                THEN [ok |-> TRUE, float |-> FALSE, v |-> NatOf(SignOf(t), GroupDigits(Unsigned(t)))]
                ELSE [ok |-> FALSE]
PyInt(s) == IntOfText(Strip(s, NumberSpace))

\* the parts of a float literal without its sign: the digits before and after
\* the point and the exponent (with its sign), [ok |-> FALSE] when it is none
LiteralParts(whole, frac, exponent) ==
    IF /\ whole = <<>> \/ DigitGroup(whole)
       /\ frac = <<>> \/ DigitGroup(frac)
       /\ whole # <<>> \/ frac # <<>>
       /\ DigitGroup(Unsigned(exponent))
    THEN [ok |-> TRUE, digits |-> NoLeadingZeros(SelectSeq(whole, IsDigit) \o SelectSeq(frac, IsDigit)),
          places |-> Len(SelectSeq(frac, IsDigit)),
          esign |-> SignOf(exponent), edigits |-> GroupDigits(Unsigned(exponent))]
    ELSE [ok |-> FALSE]
\* the text before the first x of s, all of s when it has none, and the text after it
Before(s, x) == IF IndexOf(s, x) = 0 THEN s ELSE SubSeq(s, 1, IndexOf(s, x) - 1)
After(s, x) == IF IndexOf(s, x) = 0 THEN <<>> ELSE SubSeq(s, IndexOf(s, x) + 1, Len(s))
Mantissa(u) == SubSeq(u, 1, Len(Before(Lower(u), "e")))
FloatParts(u) == LiteralParts(Before(Mantissa(u), "."), After(Mantissa(u), "."),
                              IF IndexOf(Lower(u), "e") = 0 THEN <<"0">> ELSE After(Lower(u), "e"))

\* sign * digits * 10^(exponent - places) as a float. A number of more than
\* 310 digits before the point is beyond the largest float, and one that
\* begins more than 330 places after the point is nearer to zero than to any
\* other float.
FloatSized(sign, digits, x) == IF x + Len(digits) > 310 THEN [inf |-> sign]
                               ELSE IF x + Len(digits) < -330 THEN [m |-> 0, e |-> 0]
                               ELSE FloatOf(sign, LOfDigits(digits), x, 0)
FloatOfParts(sign, p) ==
    IF p.digits = <<>> THEN [m |-> 0, e |-> 0]
    ELSE IF Len(p.edigits) > 4 THEN (IF p.esign = 1 THEN [inf |-> sign] ELSE [m |-> 0, e |-> 0])
    ELSE FloatSized(sign, p.digits, p.esign * DigitsVal(p.edigits) - p.places)

\* float(s): white space around, a sign, then "inf", "infinity", "nan" in any
\* case or a decimal literal with an optional exponent. [ok |-> FALSE] is the
\* ValueError.
FloatNumber(sign, p) == IF p.ok THEN [ok |-> TRUE, float |-> TRUE, v |-> FloatOfParts(sign, p)] ELSE [ok |-> FALSE]
FloatOfText(t) == IF Lower(Unsigned(t)) \in { <<"i", "n", "f">>, <<"i", "n", "f", "i", "n", "i", "t", "y">> }
                  THEN [ok |-> TRUE, float |-> TRUE, v |-> [inf |-> SignOf(t)]]
                  ELSE IF Lower(Unsigned(t)) = <<"n", "a", "n">> THEN [ok |-> TRUE, float |-> TRUE, v |-> [nan |-> TRUE]]
                  ELSE FloatNumber(SignOf(t), FloatParts(Unsigned(t)))
PyFloat(s) == FloatOfText(Strip(s, NumberSpace))

\* float(s) accepts s, for an s of digits and points: one point at most, one digit at least
FloatParses(s) == /\ Cardinality({i \in 1..Len(s) : s[i] = "."}) <= 1
                  /\ \E i \in 1..Len(s) : IsDigit(s[i])
                  /\ \A i \in 1..Len(s) : IsDigit(s[i]) \/ s[i] = "."

\* ------------------------------------------------------------ the outcomes

\* a number, the absent value (None), or an exception that leaves the function
NumOf(v) == IF IsDecimal(v) THEN [kind |-> "num", m |-> v.m, e |-> v.e]
            ELSE IF IsBinary(v) THEN [kind |-> "num", sign |-> v.sign, bits |-> v.bits, exp |-> v.exp]
            ELSE IF IsInf(v) THEN [kind |-> "num", inf |-> v.inf]
            ELSE [kind |-> "num", nan |-> TRUE]
Absent == [kind |-> "none"]
Raise(exc) == [kind |-> "raise", exc |-> exc]
IsNum(r) == r.kind = "num"
IsRaise(r) == r.kind = "raise"

\* ------------------------------------------ _process_financial_value (511)

\* a version of UnitExponent that reads the "$ in X" clause for every concept
UnitExponent_DollarClauseOnly(xbrl_element, unit_text) ==
    LET has(word) == Contains(Lower(unit_text), <<"$", " ", "i", "n", " ">> \o word)
    IN IF Contains(xbrl_element, <<"P", "e", "r", "S", "h", "a", "r", "e">>) THEN 0
       ELSE IF has(<<"b", "i", "l", "l", "i", "o", "n", "s">>) THEN 9
       ELSE IF has(<<"m", "i", "l", "l", "i", "o", "n", "s">>) THEN 6
       ELSE IF has(<<"t", "h", "o", "u", "s", "a", "n", "d", "s">>) THEN 3
       ELSE 0

\* a version of IsNegative that looks for a minus sign
IsNegative_MinusSign(text) == Contains(text, <<"-">>)

\* the three unit branches of lines 534-542, for the scale word named
UnitClause(xbrl_element, unit_text, word) ==
    \/ /\ Contains(xbrl_element, <<"S", "h", "a", "r", "e", "s">>)
       /\ Contains(Lower(unit_text), <<"s", "h", "a", "r", "e", "s", " ", "i", "n", " ">> \o word)
    \/ /\ ~Contains(xbrl_element, <<"S", "h", "a", "r", "e", "s">>)
       /\ Contains(Lower(unit_text), <<"$", " ", "i", "n", " ">> \o word)

\* the power of ten the value is multiplied by (lines 532-542)
UnitExponent(xbrl_element, unit_text) ==
    IF Contains(xbrl_element, <<"P", "e", "r", "S", "h", "a", "r", "e">>) THEN 0
    ELSE IF UnitClause(xbrl_element, unit_text, <<"b", "i", "l", "l", "i", "o", "n", "s">>) THEN 9
    ELSE IF UnitClause(xbrl_element, unit_text, <<"m", "i", "l", "l", "i", "o", "n", "s">>) THEN 6
    ELSE IF UnitClause(xbrl_element, unit_text, <<"t", "h", "o", "u", "s", "a", "n", "d", "s">>) THEN 3
    ELSE 0

\* line 522: any opening parenthesis makes the value negative
IsNegative(text) == Contains(text, <<"(">>)

\* line 524: re.sub('[^0-9\\.]', '', text)
AmountText(text) == SelectSeq(text, LAMBDA c : IsDigit(c) \/ c = ".")

_process_financial_value(text, xbrl_element, unit_text) ==
    LET value(amount) == IF IsNegative(text) THEN Neg(amount) ELSE amount        \* 529
        units(amount) ==
            IF xbrl_element = None THEN Raise("TypeError")                      \* 'PerShare' in None, 532
            ELSE IF Contains(xbrl_element, <<"P", "e", "r", "S", "h", "a", "r", "e">>)
                 THEN NumOf(value(amount))
            ELSE IF unit_text = None THEN Raise("AttributeError")               \* None.lower(), 534
            ELSE NumOf(FloatScale(value(amount), UnitExponent(xbrl_element, unit_text)))
        parsed(f) == IF ~f.ok THEN Absent ELSE units(f.v)                       \* ValueError, caught at 544
    IN parsed(PyFloat(AmountText(text)))                                        \* 524-528

\* ------------------------------------------------------ more string helpers

\* s.split(c) for a character c
RECURSIVE Split(_, _)
Split(s, c) == LET p == IndexOf(s, c)
               IN IF p = 0 THEN <<s>>
                  ELSE <<SubSeq(s, 1, p - 1)>> \o Split(SubSeq(s, p + 1, Len(s)), c)

\* c.join(parts)
RECURSIVE Join(_, _)
Join(parts, c) == IF parts = <<>> THEN <<>>
                  ELSE IF Len(parts) = 1 THEN parts[1]
                  ELSE parts[1] \o <<c>> \o Join(Tail(parts), c)

\* tag.get_text(separator, strip=True) of a tag with the text pieces given:
\* the pieces stripped, those that are empty then left out, joined by the separator
GetTextStripped(pieces, separator) ==
    Join(SelectSeq([i \in 1..Len(pieces) |-> Strip(pieces[i], Whitespace)], LAMBDA piece : piece # <<>>), separator)

\* s.replace(sub, ""): the occurrences of sub taken out, left to right; an
\* empty sub leaves s as it is
RECURSIVE RemoveSub(_, _)
RemoveSub(s, sub) == IF Len(s) < Len(sub) \/ sub = <<>> THEN s
                     ELSE IF SubSeq(s, 1, Len(sub)) = sub THEN RemoveSub(SubSeq(s, Len(sub) + 1, Len(s)), sub)
                     ELSE <<Head(s)>> \o RemoveSub(Tail(s), sub)

\* the longest run of digits s starts with
RECURSIVE LeadingDigits(_)
LeadingDigits(s) == IF s # <<>> /\ IsDigit(Head(s)) THEN <<Head(s)>> \o LeadingDigits(Tail(s)) ELSE <<>>

\* x repeated n times
Repeat(x, n) == [i \in 1..n |-> x]

\* ------------------------------------------------------------ the data model

\* FinancialElement (25-27)
FinancialElement(label, value) == [label |-> label, value |-> value]
\* FinancialInfo (39-47); the map is the sequence of its entries in insertion order
FinancialInfo(date, months, map) == [date |-> date, months |-> months, map |-> map]
\* FinancialReport (59-67)
FinancialReport(company, date_filed, reports) == [company |-> company, date_filed |-> date_filed, reports |-> reports]

\* key in map, map[key], and map[key] = elem for a key the map has not
HasKey(map, key) == \E i \in 1..Len(map) : map[i].key = key
Lookup(map, key) == map[CHOOSE i \in 1..Len(map) : map[i].key = key].elem
Insert(map, key, elem) == Append(map, [key |-> key, elem |-> elem])
\* map[key] = elem of a dict: the entry replaced in place, or added at the end
Store(map, key, elem) == IF HasKey(map, key)
                         THEN [i \in 1..Len(map) |-> IF map[i].key = key THEN [key |-> key, elem |-> elem] ELSE map[i]]
                         ELSE Insert(map, key, elem)

\* ----------------------------------------------------- datetime.strptime

MonthAbbrs == << <<"j", "a", "n">>, <<"f", "e", "b">>, <<"m", "a", "r">>, <<"a", "p", "r">>, <<"m", "a", "y">>, <<"j", "u", "n">>, <<"j", "u", "l">>, <<"a", "u", "g">>, <<"s", "e", "p">>, <<"o", "c", "t">>, <<"n", "o", "v">>, <<"d", "e", "c">> >>
MonthNames == << <<"j", "a", "n", "u", "a", "r", "y">>, <<"f", "e", "b", "r", "u", "a", "r", "y">>, <<"m", "a", "r", "c", "h">>, <<"a", "p", "r", "i", "l">>, <<"m", "a", "y">>, <<"j", "u", "n", "e">>, <<"j", "u", "l", "y">>, <<"a", "u", "g", "u", "s", "t">>, <<"s", "e", "p", "t", "e", "m", "b", "e", "r">>, <<"o", "c", "t", "o", "b", "e", "r">>, <<"n", "o", "v", "e", "m", "b", "e", "r">>, <<"d", "e", "c", "e", "m", "b", "e", "r">> >>

DaysIn(y, m) == IF m \in {4, 6, 9, 11} THEN 30
                ELSE IF m = 2 THEN (IF (y % 4 = 0 /\ y % 100 # 0) \/ y % 400 = 0 THEN 29 ELSE 28)
                ELSE 31

NoDate == [ok |-> FALSE]

\* the rest of a date after its month name: \s+ %d , then \s+ (spaced) or
\* nothing, %Y and the end of the text (%d is one or two digits from 1 to
\* 31, %Y is four digits)
DayAndYear(month, rest, spaced) ==
    LET r1 == LStrip(rest, Whitespace)
        day == LeadingDigits(r1)
        r2 == SubSeq(r1, Len(day) + 1, Len(r1))
        r3 == IF spaced THEN LStrip(Tail(r2), Whitespace) ELSE Tail(r2)
    IN IF /\ r1 # rest
          /\ Len(day) \in {1, 2} /\ DigitsVal(day) \in 1..31
          /\ r2 # <<>> /\ Head(r2) = ","
          /\ spaced => r3 # Tail(r2)
          /\ Len(r3) = 4 /\ AllDigits(r3)
          /\ DigitsVal(r3) >= 1
          /\ DigitsVal(day) <= DaysIn(DigitsVal(r3), month)
       THEN [ok |-> TRUE, y |-> DigitsVal(r3), m |-> month, d |-> DigitsVal(day)]
       ELSE NoDate

\* datetime.strptime(s, '%b. %d, %Y'), NoDate for the ValueError (329)
StrptimeAbbr(s) ==
    IF Len(s) >= 4 /\ (\E k \in 1..12 : MonthAbbrs[k] = Lower(SubSeq(s, 1, 3))) /\ s[4] = "."
    THEN DayAndYear(CHOOSE k \in 1..12 : MonthAbbrs[k] = Lower(SubSeq(s, 1, 3)), SubSeq(s, 5, Len(s)), TRUE)
    ELSE NoDate

\* --------------------------------------------------- _process_period (480)

\* int(re.sub('[^0-9]', '', info_text)); the ValueError of int('') is a raise
_process_period(info_text) ==
    LET digits == SelectSeq(info_text, IsDigit)
    IN IF digits = <<>> THEN Raise("ValueError") ELSE NumOf(PyInt(digits).v)

\* ------------------------------------------ _get_statement_meta_data (398)

\* A header cell (th) is [has_class, class, colspan, text, div]: whether it has
\* a class attribute and its classes, its colspan (0: none), its text, and the
\* text pieces of its first div as the document has them (None: it has no div).
Th(class, colspan, text) == [has_class |-> TRUE, class |-> class, colspan |-> colspan, text |-> text, div |-> None]
TitleTh(colspan, title, unit) ==
    [has_class |-> TRUE, class |-> {"tl"}, colspan |-> colspan, text |-> title \o unit, div |-> <<title, unit>>]

\* the locals of the function (409-414); exc is the exception that has left it
MetaLocals == [dates |-> <<>>, period_units |-> <<>>, unit_text |-> None, is_snapshot |-> FALSE,
               title_repeat |-> 0, exc |-> "none"]

\* a version of IsSnapshotTitle that knows statements of financial position only
IsSnapshotTitle_PositionOnly(title) == Contains(Lower(title), <<"s", "t", "a", "t", "e", "m", "e", "n", "t", " ", "o", "f", " ", "f", "i", "n", "a", "n", "c", "i", "a", "l", " ", "p", "o", "s", "i", "t", "i", "o", "n">>)

\* the title names a snapshot statement (445)
IsSnapshotTitle(title) == \/ Contains(Lower(title), <<"b", "a", "l", "a", "n", "c", "e">>)
                          \/ Contains(Lower(title), <<"s", "t", "a", "t", "e", "m", "e", "n", "t", " ", "o", "f", " ", "f", "i", "n", "a", "n", "c", "i", "a", "l", " ", "p", "o", "s", "i", "t", "i", "o", "n">>)

\* line 436: the text pieces of the div, stripped, joined by "|" and split at
\* every "|" again, so that a piece that holds a "|" is more than one entry
info_list(info) == Split(GetTextStripped(info.div, "|"), "|")

\* one header cell: the body of the loop of line 421
MetaCell(st, row_num, index, info) ==
    IF st.exc # "none" THEN st
    ELSE IF ~info.has_class THEN [st EXCEPT !.exc = "KeyError"]                       \* 424
    ELSE
    LET info_text == RemoveCh(info.text, "\n")                                       \* 422
        repeat == IF info.colspan = 0 THEN 1 ELSE info.colspan                        \* 426
    IN IF row_num = 0 /\ "tl" \in info.class THEN
            IF info.div = None THEN [st EXCEPT !.exc = "AttributeError"]              \* 436
            ELSE IF Len(info_list(info)) < 2 THEN [st EXCEPT !.exc = "IndexError"]    \* 438
            ELSE LET unit_text == info_list(info)[2]
                     title == Strip(RemoveSub(info_text, unit_text), Whitespace)      \* 440
                 IN [st EXCEPT !.title_repeat = IF info.colspan \in {0, 1} THEN 0 ELSE info.colspan - 1,
                               !.unit_text = unit_text,
                               !.is_snapshot = st.is_snapshot \/ IsSnapshotTitle(title)]
       ELSE IF row_num = 0 /\ "th" \in info.class THEN
            LET n == IF index = 1 THEN repeat + st.title_repeat ELSE repeat           \* 451-454
            IN IF st.is_snapshot
               THEN [st EXCEPT !.period_units = @ \o Repeat(Absent, n),               \* 458-459
                               !.dates = @ \o Repeat(info_text, n)]
               ELSE IF n <= 0 THEN st
               ELSE IF IsRaise(_process_period(info_text)) THEN [st EXCEPT !.exc = "ValueError"]
               ELSE [st EXCEPT !.period_units = @ \o Repeat(_process_period(info_text), n)]  \* 461
       ELSE IF row_num = 1 /\ "th" \in info.class THEN
            LET n == IF index = 0 THEN repeat + st.title_repeat ELSE repeat           \* 466-468
            IN [st EXCEPT !.dates = @ \o Repeat(info_text, n)]                        \* 471
       ELSE st

\* the header cells of one row, in order (421)
RECURSIVE MetaRow(_, _, _, _)
MetaRow(st, row_num, data, index) ==
    IF index >= Len(data) THEN st
    ELSE MetaRow(MetaCell(st, row_num, index, data[index + 1]), row_num, data, index + 1)

\* the loop over rows[:2] (417-471); a row is [th |-> its header cells, td |-> its data cells]
MetaScan(rows) ==
    LET r0 == IF Len(rows) >= 1 THEN MetaRow(MetaLocals, 0, rows[1].th, 0) ELSE MetaLocals
    IN IF Len(rows) >= 2 THEN MetaRow(r0, 1, rows[2].th, 0) ELSE r0

\* a version of MetaCheck that lets a mismatch through
MetaCheck_NoCheck(st) == IF st.exc # "none" THEN st.exc ELSE "none"

\* the check of lines 473-475: the exception the function ends with, "none" when it returns
MetaCheck(st) == IF st.exc # "none" THEN st.exc
                 ELSE IF Len(st.dates) # Len(st.period_units) THEN "MetaDataParsingException"
                 ELSE "none"

\* the function: its locals at its end, and exc
_get_statement_meta_data(rows) == [MetaScan(rows) EXCEPT !.exc = MetaCheck(MetaScan(rows))]

\* ---------------------------------------- _process_financial_info (326-330)

\* the loop of lines 328-330: a period for each date, with period_units[i]. exc is
\* the ValueError of the first date strptime refuses, or the IndexError of
\* the first date that has no period unit.
BuildPeriods(dates, period_units) ==
    LET bad == {i \in 1..Len(dates) : ~StrptimeAbbr(dates[i]).ok \/ i > Len(period_units)}
        first == CHOOSE i \in bad : \A j \in bad : i <= j
    IN IF bad = {}
       THEN [exc |-> "none",
             periods |-> [i \in 1..Len(dates) |-> FinancialInfo(StrptimeAbbr(dates[i]), period_units[i], <<>>)]]
       ELSE [exc |-> IF ~StrptimeAbbr(dates[first]).ok THEN "ValueError" ELSE "IndexError", periods |-> <<>>]

\* the loop of lines 391-393: financial_info.remove(fi) while iterating over
\* financial_info; i is the iterator's position (from 0). The periods are
\* distinct objects, so remove(fi) takes out the one at the position itself.
RECURSIVE CleanReports(_, _)
CleanReports(financial_info, i) ==
    IF i >= Len(financial_info) THEN financial_info
    ELSE IF financial_info[i + 1].map = <<>>
         THEN CleanReports(SubSeq(financial_info, 1, i) \o SubSeq(financial_info, i + 2, Len(financial_info)), i + 1)
         ELSE CleanReports(financial_info, i + 1)

\* ----------------------------------------------- _process_xbrl_element (489)

\* A data cell (td) is [has_class, class, text, anchor, onclick]: whether it
\* has an anchor, and the onclick attribute of its first anchor, None when the
\* anchor has none.
Td(class, text) == [has_class |-> TRUE, class |-> class, text |-> text, anchor |-> FALSE, onclick |-> None]
LabelTd(text, onclick) == [has_class |-> TRUE, class |-> {"pl"}, text |-> text, anchor |-> TRUE, onclick |-> onclick]
BareTd == [has_class |-> FALSE, class |-> {}, text |-> <<>>, anchor |-> FALSE, onclick |-> None]

\* the onclick with the javascript around the name taken out; a cell without an
\* anchor raises AttributeError, and an anchor without an onclick KeyError (502)
_process_xbrl_element(info) ==
    IF ~info.anchor THEN Raise("AttributeError")
    ELSE IF info.onclick = None THEN Raise("KeyError")
    ELSE [kind |-> "str",
          s |-> RemoveSub(RemoveSub(info.onclick, <<"t", "o", "p", ".", "S", "h", "o", "w", ".", "s", "h", "o", "w", "A", "R", "(", " ", "t", "h", "i", "s", ",", " ", "'", "d", "e", "f", "r", "e", "f", "_">>), <<"'", ",", " ", "w", "i", "n", "d", "o", "w", " ", ")", ";">>)]

\* ---------------------------------------- _process_financial_info (338-387)

\* the locals of a row (341-343), the periods and the exception that has left the function
RowLocals(financial_info) == [xbrl_element |-> None, label |-> None, numeric_data_available |-> FALSE,
                              financial_info |-> financial_info, exc |-> "none"]

\* a version of StoreValue in which the last value seen for a concept wins
StoreValue_LastSeenWins(st, index, value) ==
    LET n == Len(st.financial_info)
        pos == IF index - 1 < 0 THEN n + index ELSE index
    IN IF pos < 1 \/ pos > n THEN [st EXCEPT !.exc = "IndexError"]
       ELSE [st EXCEPT !.financial_info[pos].map =
                           Store(@, st.xbrl_element, FinancialElement(st.label, value))]

\* lines 378-387: the value stored for the period at list position index - 1, where
\* a position of -1 is the last period, as Python indexes a list
StoreValue(st, index, value) ==
    LET n == Len(st.financial_info)
        pos == IF index - 1 < 0 THEN n + index ELSE index     \* the position from 1
    IN IF pos < 1 \/ pos > n THEN [st EXCEPT !.exc = "IndexError"]                    \* 382
       ELSE IF HasKey(st.financial_info[pos].map, st.xbrl_element) THEN st            \* 384
       ELSE [st EXCEPT !.financial_info[pos].map =
                           Insert(@, st.xbrl_element, FinancialElement(st.label, value))]

\* one data cell: the body of the loop of line 345 (index from 0)
BodyCell(st, index, info, unit_text) ==
    LET info_text == Strip(info.text, Whitespace)                                     \* 346
    IN IF st.exc # "none" THEN st
       ELSE IF ~info.has_class THEN st                                                \* 352-355
       ELSE IF "pl" \in info.class THEN                                               \* 359-363
            LET named(element) == IF IsRaise(element) THEN [st EXCEPT !.exc = element.exc]
                                  ELSE [st EXCEPT !.xbrl_element = element.s, !.label = info_text]
            IN named(_process_xbrl_element(info))
       ELSE IF "nump" \in info.class \/ "num" \in info.class \/ ("text" \in info.class /\ st.numeric_data_available) THEN
            LET st1 == IF "text" \in info.class /\ ~("nump" \in info.class \/ "num" \in info.class) THEN st
                       ELSE [st EXCEPT !.numeric_data_available = TRUE]               \* 367
                stored(value) == IF IsRaise(value) THEN [st1 EXCEPT !.exc = value.exc]
                                 ELSE IF value = Absent THEN st1                      \* 378
                                 ELSE StoreValue(st1, index, value)
            IN stored(_process_financial_value(info_text, st.xbrl_element, unit_text))     \* 368, 373
       ELSE st

\* ---------------------------------------------- get_units_date_items (118)

\* text.split("\n")
SplitLines(s) == Split(s, "\n")

\* the lines joined by "\n"
JoinLines(lines) == Join(lines, "\n")

\* line 127: the stripped lines that are neither empty nor a lone "$"
ItemsOf(text) ==
    LET lines == SplitLines(text)
        stripped == [i \in 1..Len(lines) |-> Strip(lines[i], Whitespace)]
    IN SelectSeq(stripped, LAMBDA i : i # <<>> /\ i # <<"$">>)

\* the longest run of letters, and of word characters, s starts with
RECURSIVE LeadingAlpha(_)
LeadingAlpha(s) == IF s # <<>> /\ IsAlpha(Head(s)) THEN <<Head(s)>> \o LeadingAlpha(Tail(s)) ELSE <<>>
RECURSIVE LeadingWord(_)
LeadingWord(s) == IF s # <<>> /\ IsWordCh(Head(s)) THEN <<Head(s)>> \o LeadingWord(Tail(s)) ELSE <<>>

At(t, p) == IF p >= 1 /\ p <= Len(t) THEN t[p] ELSE "END"

\* (?:I|i)n(?:[\s\n])?([A-Za-z]+) matches at p; the position its group starts at
UnitsMatchAt(t, p) == /\ At(t, p) \in {"I", "i"} /\ At(t, p + 1) = "n"
                      /\ \/ IsAlpha(At(t, p + 2))
                         \/ IsSpaceCh(At(t, p + 2)) /\ IsAlpha(At(t, p + 3))
UnitsGroupAt(t, p) == IF IsAlpha(At(t, p + 2)) THEN p + 2 ELSE p + 3

\* line 119: the group of the first match, or the IndexError of [0] on no match
UnitsOf(text) ==
    LET ps == {p \in 1..Len(text) : UnitsMatchAt(text, p)}
        p0 == CHOOSE p \in ps : \A q \in ps : p <= q
    IN IF ps = {} THEN Raise("IndexError")
       ELSE [kind |-> "str", s |-> LeadingAlpha(SubSeq(text, UnitsGroupAt(text, p0), Len(text)))]

\* ,\s+\d{4} (spaced) or ,\d{4} matches with its comma at c: the position of
\* its last character, 0 when it does not match
DateTail(t, c, spaced) ==
    LET rest == SubSeq(t, c + 1, Len(t))
        year(gap) == IF (spaced => gap >= 1) /\ \A k \in 1..4 : IsDigit(At(t, c + gap + k)) THEN c + gap + 4 ELSE 0
    IN IF At(t, c) # "," THEN 0
       ELSE year(IF spaced THEN Len(rest) - Len(LStrip(rest, Whitespace)) ELSE 0)

\* \s\d{1,2} and the rest of the pattern match with the \s at q
DateDay(t, q, spaced) ==
    LET tail(d) == IF Len(d) \in {1, 2} THEN DateTail(t, q + 1 + Len(d), spaced) ELSE 0
    IN IF IsSpaceCh(At(t, q)) THEN tail(LeadingDigits(SubSeq(t, q + 1, Len(t)))) ELSE 0

\* \w+\s\d{1,2},\s+\d{4} (spaced) or \w+\s\d{1,2},\d{4} matches from p: the
\* position of its last character, 0 when it does not match
DateMatchEnd(t, p, spaced) ==
    IF IsWordCh(At(t, p)) THEN DateDay(t, p + Len(LeadingWord(SubSeq(t, p, Len(t)))), spaced) ELSE 0

\* the least member of a set of positions, 0 for the empty set
FirstOf(ps) == IF ps = {} THEN 0 ELSE CHOOSE p \in ps : \A q \in ps : p <= q

\* where the leftmost match from position from on starts, 0 when there is
\* none; a leftmost match starts where a run of word characters starts
FirstDate(t, from, spaced) ==
    FirstOf({p \in from..Len(t) : /\ p = from \/ ~IsWordCh(t[p - 1])
                                  /\ DateMatchEnd(t, p, spaced) > 0})

\* re.findall of the pattern: the matches from position from on, left to right
RECURSIVE FindDates(_, _, _)
FindDates(t, from, spaced) ==
    LET match(p0, end) == <<SubSeq(t, p0, end)>> \o FindDates(t, end + 1, spaced)
        first(p0) == IF p0 = 0 THEN <<>> ELSE match(p0, DateMatchEnd(t, p0, spaced))
    IN first(FirstDate(t, from, spaced))

\* datetime.strptime(s, '%B %d, %Y') and, not spaced, strptime(s, '%B %d,%Y')
StrptimeFull(s, spaced) ==
    LET parse(w) == IF \E k \in 1..12 : MonthNames[k] = w
                    THEN DayAndYear(CHOOSE k \in 1..12 : MonthNames[k] = w,
                                    SubSeq(s, Len(w) + 1, Len(s)), spaced)
                    ELSE NoDate
    IN parse(Lower(LeadingAlpha(s)))

\* lines 120-126: the first date of the text. The dates of the first pattern
\* are used when there is one and all of them parse; otherwise those of the
\* second pattern, where a date that does not parse is a ValueError.
DatesOf(text) ==
    LET pick(a, b) == IF a # <<>> /\ \A i \in 1..Len(a) : a[i].ok THEN [exc |-> "none", dates |-> <<a[1]>>]
                      ELSE IF \E i \in 1..Len(b) : ~b[i].ok THEN [exc |-> "ValueError", dates |-> <<>>]
                      ELSE [exc |-> "none", dates |-> IF b = <<>> THEN <<>> ELSE <<b[1]>>]
        parsed(found, spaced) == [i \in 1..Len(found) |-> StrptimeFull(found[i], spaced)]
    IN pick(parsed(FindDates(text, 1, TRUE), TRUE), parsed(FindDates(text, 1, FALSE), FALSE))

\* the function: the exception that leaves it, the dates, the items and the units
get_units_date_items(text) ==
    LET result(units, found) ==
            IF IsRaise(units) THEN [exc |-> "IndexError", dates |-> <<>>, items |-> <<>>, units |-> None]
            ELSE [exc |-> found.exc, dates |-> found.dates, items |-> ItemsOf(text), units |-> units.s]
    IN result(UnitsOf(text), DatesOf(text))

\* --------------------------------------- the legacy line-item extractors

\* lines 133-137: the items before the first one that holds "See Note"
BeforeSeeNote(items) ==
    LET before(k) == IF k = 0 THEN items ELSE SubSeq(items, 1, k - 1)
    IN before(FirstOf({k \in 1..Len(items) : Contains(items[k], <<"S", "e", "e", " ", "N", "o", "t", "e">>)}))

\* lines 138-139: not item.isupper() and item[0].isupper()
LooksLikeLabel(item) == ~IsUpperStr(item) /\ IsUpperCh(item[1])

\* lines 133-139: the items an extractor takes for labels
LabelItems(items) == SelectSeq(BeforeSeeNote(items), LooksLikeLabel)

\* seq[seq.index(x):] for an x the sequence holds
FromItem(seq, x) == SubSeq(seq, IndexOf(seq, x), Len(seq))
\* seq.remove(x) for an x the sequence holds
RemoveFirst(seq, x) ==
    LET without(k) == SubSeq(seq, 1, k - 1) \o SubSeq(seq, k + 1, Len(seq))
    IN without(IndexOf(seq, x))

\* items[item_index + 1:item_index + 1 + len(dates)][0], for the position from 1
\* of the item; [ok |-> FALSE] is the IndexError of [0] on an empty slice
ValueAfter(items, pos, ndates) ==
    IF ndates >= 1 /\ pos + 1 <= Len(items) THEN [ok |-> TRUE, s |-> items[pos + 1]] ELSE [ok |-> FALSE]

\* lines 148-149: a value that is an em-dash is read as "0"
DashIsZero(item_value) == IF item_value = <<"EMDASH">> THEN <<"0">> ELSE item_value

\* line 150: the sign of a value in parentheses
SignFactor(item_value) == IF StartsWith(item_value, <<"(">>) /\ EndsWith(item_value, <<")">>) THEN -1 ELSE 1

\* item_value.replace(",", "").strip("()")
BareDigits(item_value) == Strip(RemoveCh(item_value, ","), {"(", ")"})

Signed(v, sign) == IF sign = -1 THEN Neg(v) ELSE v

\* units_to_multiplier[units] of each extractor, as a power of ten; -1 is the KeyError
BsMultiplier(units) == IF units = <<"m", "i", "l", "l", "i", "o", "n", "s">> THEN 6 ELSE IF units = <<"n", "o", "n", "e">> THEN 0 ELSE -1
CfMultiplier(units) == IF units = <<"m", "i", "l", "l", "i", "o", "n", "s">> THEN 6 ELSE -1
IsMultiplier(units) == IF units = <<"m", "i", "l", "l", "i", "o", "n", "s">> THEN 6 ELSE IF units = <<"t", "h", "o", "u", "s", "a", "n", "d", "s">> THEN 3
                       ELSE IF units = <<"n", "o", "n", "e">> THEN 0 ELSE -1

\* value_type(digits) * units_to_multiplier[units] * sign for the number n
\* read from the digits and the power of ten k of the units: the ValueError
\* of the number comes before the KeyError of the units; the product of
\* a float is the nearest float, the product of an int is exact
Amount(n, k, sign) ==
    IF ~n.ok THEN [exc |-> "ValueError"]
    ELSE IF k < 0 THEN [exc |-> "KeyError"]
    ELSE [exc |-> "none", v |-> Signed(IF n.float THEN FloatScale(n.v, k) ELSE Scale(n.v, k), sign)]

\* {key: FinancialElement(key, val) for key, val in data.items()}
ElementsOf(data) == [i \in 1..Len(data) |-> [key |-> data[i].key, elem |-> FinancialElement(data[i].key, data[i].elem)]]

\* the return of an extractor: FinancialInfo(dates[0], months, ...), or its IndexError
ExtractorReturn(st, dates, months) ==
    IF st.exc # "none" THEN [exc |-> st.exc, info |-> Absent]
    ELSE IF dates = <<>> THEN [exc |-> "IndexError", info |-> Absent]
    ELSE [exc |-> "none", info |-> FinancialInfo(dates[1], months, ElementsOf(st.data))]

\* ---- _get_balance_sheet (131)

\* lines 151-156: the key an item is stored under, and its units
BsKey(item) == IF StartsWith(item, <<"C", "o", "m", "m", "o", "n", " ", "s", "t", "o", "c", "k">>) THEN <<"C", "o", "m", "m", "o", "n", " ", "s", "t", "o", "c", "k">>
               ELSE IF StartsWith(item, <<"A", "c", "c", "o", "u", "n", "t", "s", " ", "r", "e", "c", "e", "i", "v", "a", "b", "l", "e">>) THEN <<"A", "c", "c", "o", "u", "n", "t", "s", " ", "r", "e", "c", "e", "i", "v", "a", "b", "l", "e">> ELSE item
BsUnits(item, units) == IF StartsWith(item, <<"C", "o", "m", "m", "o", "n", " ", "s", "t", "o", "c", "k">>) THEN <<"n", "o", "n", "e">> ELSE units

\* one pass of the loop of line 145
BsItem(st, item, items, units, ndates) ==
    LET store(a) == IF a.exc # "none" THEN [st EXCEPT !.exc = a.exc]
                    ELSE [st EXCEPT !.data = Store(@, BsKey(item), a.v)]                        \* 157
        value(item_value) == store(Amount(PyInt(BareDigits(item_value)), BsMultiplier(BsUnits(item, units)),
                                          SignFactor(item_value)))                                \* 150
        slice(after) == IF ~after.ok THEN [st EXCEPT !.exc = "IndexError"]
                        ELSE value(DashIsZero(after.s))                                           \* 148-149
    IN IF st.exc # "none" THEN st
       ELSE slice(ValueAfter(items, IndexOf(items, item), ndates))                                \* 146-147

RECURSIVE BsLoop(_, _, _, _, _)
BsLoop(st, relevant_items, items, units, ndates) ==
    IF relevant_items = <<>> THEN st
    ELSE BsLoop(BsItem(st, Head(relevant_items), items, units, ndates), Tail(relevant_items), items, units, ndates)

\* data[key] = 0 unless the key is in data (158-161, 248-249)
DefaultZero(st, key) == IF st.exc # "none" \/ HasKey(st.data, key) THEN st
                        ELSE [st EXCEPT !.data = Insert(@, key, Num(0))]

NoData == [data |-> <<>>, exc |-> "none"]

_get_balance_sheet(text, months) ==
    LET loop(r, relevant_items) ==
            ExtractorReturn(DefaultZero(DefaultZero(BsLoop(NoData, relevant_items, r.items, r.units, Len(r.dates)),
                                                    <<"G", "o", "o", "d", "w", "i", "l", "l">>),
                                        <<"A", "c", "q", "u", "i", "r", "e", "d", " ", "i", "n", "t", "a", "n", "g", "i", "b", "l", "e", " ", "a", "s", "s", "e", "t", "s", ",", " ", "n", "e", "t">>),
                            r.dates, months)                                                      \* 143-162
        remove(r, kept) == IF IndexOf(kept, <<"C", "o", "m", "m", "i", "t", "m", "e", "n", "t", "s", " ", "a", "n", "d", " ", "c", "o", "n", "t", "i", "n", "g", "e", "n", "c", "i", "e", "s">>) = 0
                           THEN [exc |-> "ValueError", info |-> Absent]
                           ELSE loop(r, RemoveFirst(kept, <<"C", "o", "m", "m", "i", "t", "m", "e", "n", "t", "s", " ", "a", "n", "d", " ", "c", "o", "n", "t", "i", "n", "g", "e", "n", "c", "i", "e", "s">>))     \* 142
        cut(r, labels) == IF IndexOf(labels, <<"C", "u", "r", "r", "e", "n", "t", " ", "a", "s", "s", "e", "t", "s", ":">>) = 0 THEN [exc |-> "ValueError", info |-> Absent]
                          ELSE remove(r, SelectSeq(FromItem(labels, <<"C", "u", "r", "r", "e", "n", "t", " ", "a", "s", "s", "e", "t", "s", ":">>),         \* 140-141
                                                   LAMBDA item : ~EndsWith(item, <<":">>)))
        body(r) == IF r.exc # "none" THEN [exc |-> r.exc, info |-> Absent]
                   ELSE cut(r, LabelItems(r.items))                                               \* 133-139
    IN body(get_units_date_items(text))                                                           \* 132

\* ---- _get_cash_flow (165)

\* line 180: possible_parents is list((str.lower, [...])), a list of two elements,
\* the method str.lower and the list of the four headers: no string is in it
InPossibleParents(lowered) == FALSE

\* lines 196-199: the key of an item
CfItemName(current_parent, item) == IF current_parent = None THEN <<"N", "o", "n", "e", " ", "-", " ">> \o item ELSE item

\* one pass of the loop of line 187; st carries current_parent
CfItem(st, item, items, units, ndates) ==
    LET store(a) == IF a.exc # "none" THEN [st EXCEPT !.exc = a.exc]
                    ELSE [st EXCEPT !.data = Store(@, CfItemName(st.current_parent, item), a.v)]   \* 196-200
        value(item_value) == store(Amount(PyInt(BareDigits(item_value)), CfMultiplier(units),
                                          SignFactor(item_value)))                                \* 195
        slice(after) == IF ~after.ok THEN [st EXCEPT !.exc = "IndexError"]
                        ELSE value(DashIsZero(after.s))                                           \* 193-194
    IN IF st.exc # "none" THEN st
       ELSE IF InPossibleParents(Lower(item)) THEN [st EXCEPT !.current_parent = item]            \* 188-190
       ELSE slice(ValueAfter(items, IndexOf(items, item), ndates))                                \* 191-192

RECURSIVE CfLoop(_, _, _, _, _)
CfLoop(st, relevant_items, items, units, ndates) ==
    IF relevant_items = <<>> THEN st
    ELSE CfLoop(CfItem(st, Head(relevant_items), items, units, ndates), Tail(relevant_items), items, units, ndates)

\* lines 174-179: the labels from the opening cash balance on, when there is one
CfFromOpening(labels) ==
    IF IndexOf(labels, <<"C", "a", "s", "h", " ", "a", "n", "d", " ", "c", "a", "s", "h", " ", "e", "q", "u", "i", "v", "a", "l", "e", "n", "t", "s", ",", " ", "b", "e", "g", "i", "n", "n", "i", "n", "g", " ", "o", "f", " ", "t", "h", "e", " ", "p", "e", "r", "i", "o", "d">>) > 0
    THEN FromItem(labels, <<"C", "a", "s", "h", " ", "a", "n", "d", " ", "c", "a", "s", "h", " ", "e", "q", "u", "i", "v", "a", "l", "e", "n", "t", "s", ",", " ", "b", "e", "g", "i", "n", "n", "i", "n", "g", " ", "o", "f", " ", "t", "h", "e", " ", "p", "e", "r", "i", "o", "d">>)
    ELSE IF IndexOf(labels, <<"C", "a", "s", "h", " ", "a", "n", "d", " ", "c", "a", "s", "h", " ", "e", "q", "u", "i", "v", "a", "l", "e", "n", "t", "s", ",", " ", "b", "e", "g", "i", "n", "n", "i", "n", "g", " ", "o", "f", " ", "t", "h", "e", " ", "y", "e", "a", "r">>) > 0
    THEN FromItem(labels, <<"C", "a", "s", "h", " ", "a", "n", "d", " ", "c", "a", "s", "h", " ", "e", "q", "u", "i", "v", "a", "l", "e", "n", "t", "s", ",", " ", "b", "e", "g", "i", "n", "n", "i", "n", "g", " ", "o", "f", " ", "t", "h", "e", " ", "y", "e", "a", "r">>)
    ELSE labels

_get_cash_flow(text, months) ==
    LET loop(r, relevant_items) ==
            ExtractorReturn(CfLoop([data |-> <<>>, exc |-> "none", current_parent |-> None], relevant_items,
                                   r.items, r.units, Len(r.dates)),
                            r.dates, months)                                                      \* 184-201
        body(r) == IF r.exc # "none" THEN [exc |-> r.exc, info |-> Absent]
                   ELSE loop(r, SelectSeq(CfFromOpening(LabelItems(r.items)),                     \* 167-183
                                          LAMBDA item : ~EndsWith(item, <<":">>) \/ InPossibleParents(Lower(item))))
    IN body(get_units_date_items(text))                                                           \* 166

\* ---- _get_income_statement (204)

IsFootnoteAt(s, p) == At(s, p) = "(" /\ IsDigit(At(s, p + 1)) /\ At(s, p + 2) = ")"

\* re.sub(r" ?\(\d\)", "", item)
RECURSIVE RemoveFootnotes(_)
RemoveFootnotes(s) ==
    IF s = <<>> THEN <<>>
    ELSE IF Head(s) = " " /\ IsFootnoteAt(s, 2) THEN RemoveFootnotes(SubSeq(s, 5, Len(s)))
    ELSE IF IsFootnoteAt(s, 1) THEN RemoveFootnotes(SubSeq(s, 4, Len(s)))
    ELSE <<Head(s)>> \o RemoveFootnotes(Tail(s))

\* line 232: the units of a Basic/Diluted pair
PerShareUnits(clean_item, units) == IF Contains(clean_item, <<"p", "e", "r", " ", "s", "h", "a", "r", "e">>) THEN <<"t", "h", "o", "u", "s", "a", "n", "d", "s">> ELSE units

\* lines 233-236: int(float(value.replace(",", "").strip("()")) * units_to_multiplier[adjusted_units])
PairValue(value, adjusted_units) ==
    LET scaled(a) == IF a.exc # "none" THEN a
                     ELSE IF IsInf(a.v) THEN [exc |-> "OverflowError"]      \* int(inf)
                     ELSE IF IsNan(a.v) THEN [exc |-> "ValueError"]         \* int(nan)
                     ELSE [exc |-> "none", v |-> Trunc(a.v)]
    IN scaled(Amount(PyFloat(BareDigits(value)), IsMultiplier(adjusted_units), 1))

\* lines 227-236: the two entries of a label that is followed by "Basic"
IsPair(st, item, pos, items, units, ndates) ==
    LET store(clean_item, b, d) ==
            IF b.exc # "none" THEN [st EXCEPT !.exc = b.exc]
            ELSE IF d.exc # "none" THEN [st EXCEPT !.exc = d.exc]
            ELSE [st EXCEPT !.data = Store(Store(@, clean_item, b.v), clean_item \o <<" ", "D", "i", "l", "u", "t", "e", "d">>, d.v)]
        values(clean_item, base_value, diluted_value) ==
            IF ~base_value.ok \/ ~diluted_value.ok THEN [st EXCEPT !.exc = "IndexError"]
            ELSE store(clean_item, PairValue(base_value.s, PerShareUnits(clean_item, units)),      \* 232-236
                       PairValue(diluted_value.s, PerShareUnits(clean_item, units)))
        indexes(base_index, diluted_index) ==
            IF diluted_index < 0 THEN [st EXCEPT !.exc = "ValueError"]
            ELSE values(Strip(item, {":"}),                                                        \* 227
                        ValueAfter(items, pos + base_index, ndates),                               \* 230
                        ValueAfter(items, pos + diluted_index, ndates))                            \* 231
        from(rest) == indexes(IndexOf(rest, <<"B", "a", "s", "i", "c">>) - 1, IndexOf(rest, <<"D", "i", "l", "u", "t", "e", "d">>) - 1)        \* 228-229
    IN from(SubSeq(items, pos, Len(items)))

\* lines 238-247: an ordinary row
IsOrdinary(st, item, pos, items, units, ndates) ==
    LET store(key, a) == IF a.exc # "none" THEN [st EXCEPT !.exc = a.exc]
                         ELSE [st EXCEPT !.data = Insert(@, key, a.v)]                             \* 246
        value(key, item_value) ==
            IF HasKey(st.data, key) THEN st                                                        \* 243
            ELSE store(key, Amount(IF Contains(item_value, <<".">>) THEN PyFloat(BareDigits(item_value))   \* 245
                                   ELSE PyInt(BareDigits(item_value)),
                                   IsMultiplier(IF Contains(key, <<"d", "i", "v", "i", "d", "e", "n", "d", "s">>) THEN <<"n", "o", "n", "e">> ELSE units),  \* 244
                                   SignFactor(item_value)))                                        \* 241
        slice(after) == IF ~after.ok THEN [st EXCEPT !.exc = "IndexError"]
                        ELSE value(RemoveFootnotes(item), DashIsZero(after.s))                     \* 239-242
    IN slice(ValueAfter(items, pos, ndates))                                                       \* 238

\* one pass of the loop of line 224
IsItem(st, item, items, units, ndates) ==
    LET at(pos) == IF pos + 1 > Len(items) THEN [st EXCEPT !.exc = "IndexError"]                   \* 226
                   ELSE IF items[pos + 1] = <<"B", "a", "s", "i", "c">> THEN IsPair(st, item, pos, items, units, ndates)
                   ELSE IsOrdinary(st, item, pos, items, units, ndates)
    IN IF st.exc # "none" THEN st ELSE at(IndexOf(items, item))                                    \* 225

RECURSIVE IsLoop(_, _, _, _, _)
IsLoop(st, relevant_items, items, units, ndates) ==
    IF relevant_items = <<>> THEN st
    ELSE IsLoop(IsItem(st, Head(relevant_items), items, units, ndates), Tail(relevant_items), items, units, ndates)

\* seq without the first x, when it holds one
RemoveIfPresent(seq, x) == IF IndexOf(seq, x) > 0 THEN RemoveFirst(seq, x) ELSE seq

\* lines 214-216: the items before the first that holds "Three Months Ended"
BeforeThreeMonths(seq) ==
    LET before(k) == IF k = 0 THEN seq ELSE SubSeq(seq, 1, k - 1)
    IN before(FirstOf({k \in 1..Len(seq) : Contains(seq[k], <<"T", "h", "r", "e", "e", " ", "M", "o", "n", "t", "h", "s", " ", "E", "n", "d", "e", "d">>)}))

_get_income_statement(text, months) ==
    LET loop(r, relevant_items) ==
            ExtractorReturn(DefaultZero(IsLoop(NoData, relevant_items, r.items, r.units, Len(r.dates)),
                                        <<"P", "r", "e", "f", "e", "r", "r", "e", "d", " ", "d", "i", "v", "i", "d", "e", "n", "d", "s">>),
                            r.dates, months)                                                      \* 222-250
        remove(r, from_sales) ==
            IF IndexOf(from_sales, <<"O", "p", "e", "r", "a", "t", "i", "n", "g", " ", "e", "x", "p", "e", "n", "s", "e", "s", ":">>) = 0 THEN [exc |-> "ValueError", info |-> Absent]
            ELSE loop(r, RemoveIfPresent(RemoveIfPresent(RemoveFirst(from_sales, <<"O", "p", "e", "r", "a", "t", "i", "n", "g", " ", "e", "x", "p", "e", "n", "s", "e", "s", ":">>),   \* 217-221
                                                         <<"O", "t", "h", "e", "r", " ", "i", "n", "c", "o", "m", "e", " ", "a", "n", "d", " ", "e", "x", "p", "e", "n", "s", "e", ":">>),
                                         <<"S", "p", "e", "c", "i", "a", "l", " ", "c", "h", "a", "r", "g", "e", "s", ":">>))
        cut(r, labels) == IF IndexOf(labels, <<"N", "e", "t", " ", "s", "a", "l", "e", "s">>) = 0 THEN [exc |-> "ValueError", info |-> Absent]
                          ELSE remove(r, BeforeThreeMonths(FromItem(labels, <<"N", "e", "t", " ", "s", "a", "l", "e", "s">>)))      \* 213-216
        body(r) == IF r.exc # "none" THEN [exc |-> r.exc, info |-> Absent]
                   ELSE cut(r, SelectSeq(LabelItems(r.items),                                     \* 206-212
                                         LAMBDA item : item # <<"B", "a", "s", "i", "c">> /\ item # <<"D", "i", "l", "u", "t", "e", "d">>))
    IN body(get_units_date_items(text))                                                           \* 205

\* ------------------------------ the text of a filing (lines 258 to 282)

\* s with the characters at the positions of the set drop left out
Without(s, drop) == SelectSeq([i \in 1..Len(s) |-> IF i \in drop THEN "DROP" ELSE s[i]], LAMBDA c : c # "DROP")

\* s.find(sub, from - 1) + 1 for a sub that is not empty: where the first
\* occurrence of sub from position from on starts, 0 when there is none
FindSub(s, sub, from) ==
    FirstOf({p \in from..(Len(s) - Len(sub) + 1) : s[p] = sub[1] /\ SubSeq(s, p, p + Len(sub) - 1) = sub})

\* s.replace(old, new) for an old that is not empty: the occurrences of old
\* that do not overlap, left to right
RECURSIVE Replace(_, _, _)
ReplaceAt(s, old, new, p) ==
    IF p = 0 THEN s ELSE SubSeq(s, 1, p - 1) \o new \o Replace(SubSeq(s, p + Len(old), Len(s)), old, new)
Replace(s, old, new) == ReplaceAt(s, old, new, FindSub(s, old, 1))

\* line 259: replace(nonBreakSpace, " ")
SpacesForNbsp(s) == [i \in 1..Len(s) |-> IF s[i] = " " THEN " " ELSE s[i]]

\* line 260: re.sub("\n+\)", ")", t) takes out the newlines of a run that a ")" follows
NewlinesBeforeParen(t) ==
    {i \in 1..Len(t) : t[i] = "\n" /\ \E j \in (i + 1)..Len(t) : t[j] = ")" /\ \A k \in (i + 1)..(j - 1) : t[k] = "\n"}

\* line 262: re.sub(r" +", " ", t) takes out a space that follows a space
RepeatedSpaces(t) == {i \in 2..Len(t) : t[i] = " " /\ t[i - 1] = " "}

\* line 264: re.sub(r",\n", ",", t) takes out a newline that follows a comma
NewlinesAfterComma(t) == {i \in 2..Len(t) : t[i] = "\n" /\ t[i - 1] = ","}

\* line 265: re.findall(r"\w\n\s\w", t). A match is four characters and the
\* search goes on after it, so that of the matches that follow each other
\* at a distance of three every second one is found.
ShortBreakAt(t, p) == At(t, p + 1) = "\n" /\ IsWordCh(At(t, p)) /\ IsSpaceCh(At(t, p + 2)) /\ IsWordCh(At(t, p + 3))
ShortBreaksBefore(t, p) == CHOOSE r \in 0..Len(t) : /\ \A j \in 1..r : ShortBreakAt(t, p - 3 * j)
                                                    /\ ~ShortBreakAt(t, p - 3 * (r + 1))
ShortBreakOf(t, p) == IF ShortBreakAt(t, p) /\ ShortBreaksBefore(t, p) % 2 = 0 THEN SubSeq(t, p, p + 3) ELSE <<>>
ShortBreaks(t) == SelectSeq([p \in 1..Len(t) |-> ShortBreakOf(t, p)], LAMBDA f : f # <<>>)

\* the greatest member of a set of positions, 0 for the empty set
LastOf(ps) == IF ps = {} THEN 0 ELSE CHOOSE p \in ps : \A q \in ps : q <= p

\* the positions of the newlines of t, in order
NewlinesOf(t) == SelectSeq([i \in 1..Len(t) |-> IF t[i] = "\n" THEN i ELSE 0], LAMBDA i : i # 0)
\* where line k of t starts and ends, given the positions of the newlines
LineFrom(nls, k) == IF k = 1 THEN 1 ELSE nls[k - 1] + 1
LineTo(t, nls, k) == IF k > Len(nls) THEN Len(t) ELSE nls[k] - 1
\* the positions of the word characters of line k
WordsOfLine(t, nls, k) == {q \in LineFrom(nls, k)..LineTo(t, nls, k) : IsWordCh(t[q])}
\* for each line of t, whether it has a word character
HasWord(t, nls) == SubSeq([k \in 1..(Len(nls) + 1) |-> WordsOfLine(t, nls, k) # {}], 1, Len(nls) + 1)

\* line 267: re.findall(r"\w+.*\n.*\w+", t). A match starts at the first word
\* character of a line and ends at the last word character of the next
\* line, and the search goes on after it: of the lines with a word
\* character that follow each other, the first is joined to the second,
\* the third to the fourth, and so on.
WordyBefore(wordy, k) == CHOOSE r \in 0..(k - 1) : /\ \A j \in (k - r)..(k - 1) : wordy[j]
                                                   /\ r = k - 1 \/ ~wordy[k - r - 1]
StartsBreak(wordy, k) == k < Len(wordy) /\ wordy[k] /\ wordy[k + 1] /\ WordyBefore(wordy, k) % 2 = 0
LineBreakOf(t, nls, wordy, k) ==
    IF StartsBreak(wordy, k) THEN SubSeq(t, FirstOf(WordsOfLine(t, nls, k)), LastOf(WordsOfLine(t, nls, k + 1)))
    ELSE <<>>
LineBreaksOf(t, nls, wordy) == SelectSeq([k \in 1..Len(wordy) |-> LineBreakOf(t, nls, wordy, k)], LAMBDA f : f # <<>>)
LineBreaks(t) == LineBreaksOf(t, NewlinesOf(t), HasWord(t, NewlinesOf(t)))

\* lines 265-268: for f in found: t = t.replace(f, f.replace("\n", "")), for
\* the matches from the one at lo to the one at hi
RECURSIVE Rejoin(_, _, _, _)
Rejoin(t, found, lo, hi) ==
    IF lo > hi \/ t = <<>> THEN t
    ELSE IF lo = hi THEN Replace(t, found[lo], RemoveCh(found[lo], "\n"))
    ELSE Rejoin(Rejoin(t, found, lo, (lo + hi) \div 2), found, ((lo + hi) \div 2) + 1, hi)
RejoinAll(t, found) == Rejoin(t, found, 1, Len(found))

RejoinShort(t) == RejoinAll(t, ShortBreaks(t))
RejoinLines(t) == RejoinAll(t, LineBreaks(t))
Squeeze(t) == Without(t, RepeatedSpaces(t))
Unwrap(t) == Without(t, NewlinesBeforeParen(t))
AfterComma(t) == Without(t, NewlinesAfterComma(t))

\* lines 259-268: report_text, from source_soup.text
NormalizeReport(text) ==
    RejoinLines(RejoinShort(AfterComma(RemoveCh(Squeeze(Replace(Unwrap(SpacesForNbsp(text)), <<"'", " ", "'">>, <<" ">>)), "RSQUO"))))

\* a heading of words with an optional space between them, as the pattern
\* "STATEMENTS ?OF ?OPERATIONS", matches at p: the position of its last
\* character, 0 when it does not match
RECURSIVE HeadingEnd(_, _, _)
HeadingEnd(t, p, words) ==
    IF p + Len(Head(words)) - 1 > Len(t) THEN 0
    ELSE IF SubSeq(t, p, p + Len(Head(words)) - 1) # Head(words) THEN 0
    ELSE IF Len(words) = 1 THEN p + Len(Head(words)) - 1
    ELSE HeadingEnd(t, p + Len(Head(words)) + (IF At(t, p + Len(Head(words))) = " " THEN 1 ELSE 0), Tail(words))

\* report_text.find(re.findall(pattern, report_text)[0]) + 1: where the first
\* match of the heading starts, 0 for the IndexError of [0] on no match
HeadingStart(t, words) == FirstOf({p \in 1..Len(t) : t[p] = words[1][1] /\ HeadingEnd(t, p, words) > 0})

SooHeading == << <<"S", "T", "A", "T", "E", "M", "E", "N", "T", "S">>, <<"O", "F">>, <<"O", "P", "E", "R", "A", "T", "I", "O", "N", "S">> >>
BsHeading == << <<"B", "A", "L", "A", "N", "C", "E">>, <<"S", "H", "E", "E", "T", "S">> >>
SocfHeading == << <<"S", "T", "A", "T", "E", "M", "E", "N", "T", "S">>, <<"O", "F">>, <<"C", "A", "S", "H">>, <<"F", "L", "O", "W">> >>

\* t[a:b] of Python for a >= 0 and any b
PySlice(t, a, b) ==
    SubSeq(t, a + 1, IF b < 0 THEN (IF Len(t) + b < 0 THEN 0 ELSE Len(t) + b) ELSE IF b > Len(t) THEN Len(t) ELSE b)

\* report_text[start:].find("See"), for the position start from 1
SeeOffset(t, start) == IF FindSub(t, <<"S", "e", "e">>, start) = 0 THEN -1 ELSE FindSub(t, <<"S", "e", "e">>, start) - start

\* [A-Z] of the re module
IsCapital(c) == \E i \in 1..26 : c = UpperChars[i]

\* \n+\d+[\n\s]+[A-Z]{2,} matches at p, a newline: after the newlines come
\* digits, then white space, then two capitals
BreakTail(spaced, rest) == /\ Len(rest) < Len(spaced) /\ Len(rest) >= 2
                           /\ IsCapital(rest[1]) /\ IsCapital(rest[2])
BreakDigits(numbered, digits) ==
    /\ digits # <<>>
    /\ BreakTail(SubSeq(numbered, Len(digits) + 1, Len(numbered)),
                 LStrip(SubSeq(numbered, Len(digits) + 1, Len(numbered)), Whitespace))
BreakLine(numbered) == BreakDigits(numbered, LeadingDigits(numbered))
PageBreakAt(t, p) == t[p] = "\n" /\ BreakLine(LStrip(SubSeq(t, p, Len(t)), {"\n"}))

\* line 278: next(re.finditer(...)).start() on report_text[start:], for the
\* position start from 1; -1 is the StopIteration of next
PageBreakOffset(t, start) ==
    IF \E p \in start..Len(t) : PageBreakAt(t, p)
    THEN FirstOf({p \in start..Len(t) : PageBreakAt(t, p)}) - start ELSE -1

\* lines 270-271, 273-274: the section from its heading to the next "See"
SectionAt(t, start) == PySlice(t, start - 1, start - 1 + SeeOffset(t, start))

\* lines 276-280: the cash-flow section ends at the next "See", and without
\* one at the first page break
SocfEnd(t, start) == IF SeeOffset(t, start) < 0 THEN PageBreakOffset(t, start) ELSE SeeOffset(t, start)

\* lines 269-282: the three sections cut out of report_text, and the
\* exception that ends the cut ("none": none). The bare raise of line 282
\* has no exception to raise again, which is a RuntimeError.
CutSocf(t, soo, bs, socf) ==
    [exc |-> IF soo = <<>> \/ bs = <<>> \/ socf = <<>> THEN "RuntimeError" ELSE "none",
     soo_text |-> soo, bs_text |-> bs, socf_text |-> socf]
CutAt(t, soo_start, bs_start, socf_start) ==
    IF soo_start = 0 THEN [exc |-> "IndexError", soo_text |-> None, bs_text |-> None, socf_text |-> None]
    ELSE IF bs_start = 0 THEN [exc |-> "IndexError", soo_text |-> SectionAt(t, soo_start), bs_text |-> None, socf_text |-> None]
    ELSE IF socf_start = 0
         THEN [exc |-> "IndexError", soo_text |-> SectionAt(t, soo_start), bs_text |-> SectionAt(t, bs_start), socf_text |-> None]
    ELSE IF SocfEnd(t, socf_start) < 0
         THEN [exc |-> "StopIteration", soo_text |-> SectionAt(t, soo_start), bs_text |-> SectionAt(t, bs_start), socf_text |-> None]
    ELSE CutSocf(t, SectionAt(t, soo_start), SectionAt(t, bs_start),
                 PySlice(t, socf_start - 1, socf_start - 1 + SocfEnd(t, socf_start)))
CutReport(t) == CutAt(t, HeadingStart(t, SooHeading), HeadingStart(t, BsHeading), HeadingStart(t, SocfHeading))

\* ------------------------------------- _process_old_financial_info (253)

\* the longest run of word characters s ends with
RECURSIVE TrailingWord(_)
TrailingWord(s) == IF s # <<>> /\ IsWordCh(s[Len(s)]) THEN TrailingWord(SubSeq(s, 1, Len(s) - 1)) \o <<s[Len(s)]>>
                   ELSE <<>>

\* line 285: re.findall(r"(\w+) Months Ended", socf_text, re.IGNORECASE), its
\* first group, or None when the text holds no such phrase
MonthsWord(text) ==
    LET phrase == <<" ", "m", "o", "n", "t", "h", "s", " ", "e", "n", "d", "e", "d">>
        ps == {p \in 2..Len(text) : /\ IsWordCh(text[p - 1])
                                    /\ p + Len(phrase) - 1 <= Len(text)
                                    /\ Lower(SubSeq(text, p, p + Len(phrase) - 1)) = phrase}
        p0 == CHOOSE p \in ps : \A q \in ps : p <= q
    IN IF ps = {} THEN None ELSE TrailingWord(SubSeq(text, 1, p0 - 1))

\* the number words of word2number (american_number_system) and their values;
\* "point" stands for the decimal point
NumberWords == << <<"z", "e", "r", "o">>, <<"o", "n", "e">>, <<"t", "w", "o">>, <<"t", "h", "r", "e", "e">>, <<"f", "o", "u", "r">>, <<"f", "i", "v", "e">>, <<"s", "i", "x">>, <<"s", "e", "v", "e", "n">>, <<"e", "i", "g", "h", "t">>, <<"n", "i", "n", "e">>,
                  <<"t", "e", "n">>, <<"e", "l", "e", "v", "e", "n">>, <<"t", "w", "e", "l", "v", "e">>, <<"t", "h", "i", "r", "t", "e", "e", "n">>, <<"f", "o", "u", "r", "t", "e", "e", "n">>, <<"f", "i", "f", "t", "e", "e", "n">>, <<"s", "i", "x", "t", "e", "e", "n">>,
                  <<"s", "e", "v", "e", "n", "t", "e", "e", "n">>, <<"e", "i", "g", "h", "t", "e", "e", "n">>, <<"n", "i", "n", "e", "t", "e", "e", "n">>, <<"t", "w", "e", "n", "t", "y">>, <<"t", "h", "i", "r", "t", "y">>, <<"f", "o", "r", "t", "y">>, <<"f", "i", "f", "t", "y">>,
                  <<"s", "i", "x", "t", "y">>, <<"s", "e", "v", "e", "n", "t", "y">>, <<"e", "i", "g", "h", "t", "y">>, <<"n", "i", "n", "e", "t", "y">>, <<"h", "u", "n", "d", "r", "e", "d">>, <<"t", "h", "o", "u", "s", "a", "n", "d">>, <<"m", "i", "l", "l", "i", "o", "n">>,
                  <<"b", "i", "l", "l", "i", "o", "n">>, <<"p", "o", "i", "n", "t">> >>
NumberValues == <<0, 1, 2, 3, 4, 5, 6, 7, 8, 9, 10, 11, 12, 13, 14, 15, 16, 17, 18, 19, 20, 30, 40, 50, 60, 70, 80, 90,
                  100, 1000, 1000000, 1000000000, 0>>

\* str.isdigit: the string is not empty and its characters are digits, the
\* superscript digits of Latin-1 among them
IsDigitStr(s) == s # <<>> /\ \A i \in 1..Len(s) : IsDigit(s[i]) \/ s[i] \in {"²", "³", "¹"}

\* int(s) of a string of digits, or its ValueError
IntOrRaise(n) == IF n.ok THEN NumOf(n.v) ELSE Raise("ValueError")

\* w2n.word_to_num (word2number 1.1) on one word, a match of \w+: the word
\* in lowercase is read by int when str.isdigit holds for it, a number word
\* has its value (the lone word "point" leaves the sum at 0), and a word
\* that is no number word is a ValueError
word_to_num(word) ==
    IF IsDigitStr(Lower(word)) THEN IntOrRaise(PyInt(Lower(word)))
    ELSE IF IndexOf(NumberWords, Lower(word)) > 0 THEN NumOf(Num(NumberValues[IndexOf(NumberWords, Lower(word))]))
    ELSE Raise("ValueError")

\* lines 285-287: months after the cash-flow text has been searched
MonthsAfter(months, socf_text) ==
    IF MonthsWord(socf_text) = None THEN months ELSE word_to_num(MonthsWord(socf_text))

\* the months parameter's default (253, 292)
DefaultMonths == 12

\* --------------------------------------------------------------- variables

VARIABLES
    \* one call of _process_financial_value: its arguments, its result (Pending
    \* before the call), and the result for the bare token once the token has
    \* been put in parentheses (Pending before that)
    nv_text, nv_xbrl_element, nv_unit_text, nv_value, nv_bare_value,
    \* one call of get_financial_report: the first two rows of the table, where
    \* the call is (pc), the locals of _get_statement_meta_data at its end, the
    \* exception that has left the call ("none": none), the periods, the report
    \* returned (None before), and the cursor and locals of the row loop
    rows, pc, dates, period_units, unit_text, is_snapshot, exc, financial_info, financial_report,
    row_num, index, xbrl_element, label, numeric_data_available,
    \* one call of get_old_financial_report: where the call is (old_pc), the
    \* exception that has left it ("none": none), the locals of
    \* _process_old_financial_info (report_text is source_soup.text before line
    \* 259), and the report returned (None before)
    old_pc, old_exc, months, report_text, bs_text, soo_text, socf_text,
    balance_sheet_info, income_statement_info, cash_flow_info, old_financial_report,
    \* the FinancialReport objects made by callers: the list objects of the
    \* program by identity (list_objects[DefaultReports] is the list the def of
    \* line 59 makes once, as the default of reports), the reports in the order
    \* of their construction (the field reports holds the identity of a list),
    \* and the last call made ("none" before the first)
    list_objects, report_objects, report_call

nvVars == <<nv_text, nv_xbrl_element, nv_unit_text, nv_value, nv_bare_value>>
metaVars == <<rows, dates, period_units, unit_text, is_snapshot>>
rowVars == <<row_num, index, xbrl_element, label, numeric_data_available>>
modernVars == <<metaVars, pc, exc, financial_info, financial_report, rowVars>>
oldVars == <<old_pc, old_exc, months, report_text, bs_text, soo_text, socf_text,
             balance_sheet_info, income_statement_info, cash_flow_info, old_financial_report>>
reportVars == <<list_objects, report_objects, report_call>>
vars == <<nvVars, modernVars, oldVars, reportVars>>

Pending == [kind |-> "pending"]

\* ------------------------------------------- inputs of the value normalizer

\* the characters raw cell texts are drawn from: digits, a thousands
\* separator, a decimal point, an opening parenthesis, a currency symbol
TextAlphabet == {"1", "5", ",", ".", "(", "$"}

RECURSIVE SeqsUpTo(_, _)
SeqsUpTo(S, n) == IF n = 0 THEN {<<>>}
                  ELSE LET shorter == SeqsUpTo(S, n - 1)
                       IN shorter \cup {Append(s, c) : s \in {t \in shorter : Len(t) = n - 1}, c \in S}

\* a separated number, a dash, and a number whose product with 1000 is not a whole float
ExampleTexts == {<<"1", ",", "2", "3", "4">>, <<"EMDASH">>, <<"2", ".", "0", "1">>}
Texts == SeqsUpTo(TextAlphabet, MaxTextLen) \cup ExampleTexts

XbrlElements ==
    { None,
      <<"u", "s", "-", "g", "a", "a", "p", "_", "A", "s", "s", "e", "t", "s">>,
      <<"u", "s", "-", "g", "a", "a", "p", "_", "S", "h", "a", "r", "e", "s", "I", "s", "s", "u", "e", "d">>,
      <<"u", "s", "-", "g", "a", "a", "p", "_", "E", "a", "r", "n", "i", "n", "g", "s", "P", "e", "r", "S", "h", "a", "r", "e", "B", "a", "s", "i", "c">> }

UnitTexts ==
    { None,
      <<"$", " ", "i", "n", " ", "M", "i", "l", "l", "i", "o", "n", "s">>,
      <<"$", " ", "i", "n", " ", "B", "i", "l", "l", "i", "o", "n", "s">>,
      <<"s", "h", "a", "r", "e", "s", " ", "i", "n", " ", "M", "i", "l", "l", "i", "o", "n", "s">>,
      <<"s", "h", "a", "r", "e", "s", " ", "i", "n", " ", "T", "h", "o", "u", "s", "a", "n", "d", "s", ",", " ",
        "$", " ", "i", "n", " ", "M", "i", "l", "l", "i", "o", "n", "s">>,
      <<"S", "h", "a", "r", "e", "s", " ", "i", "n", " ", "B", "i", "l", "l", "i", "o", "n", "s", ",", " ",
        "$", " ", "i", "n", " ", "T", "h", "o", "u", "s", "a", "n", "d", "s">>,
      <<"$", " ", "i", "n", " ", "H", "u", "n", "d", "r", "e", "d", "s">>,
      <<"U", "S", "D", " ", "(", "$", ")">> }

\* a digit string with optional thousands separators
IsDigitString(d) == /\ \A i \in 1..Len(d) : IsDigit(d[i]) \/ d[i] = ","
                    /\ \E i \in 1..Len(d) : IsDigit(d[i])

InParens(d) == <<"(">> \o d \o <<")">>

NVStart == /\ nv_text \in Texts
          /\ nv_xbrl_element \in XbrlElements
          /\ nv_unit_text \in UnitTexts
          /\ nv_value = Pending
          /\ nv_bare_value = Pending

\* the call
NVNormalize == /\ nv_value = Pending
               /\ nv_value' = _process_financial_value(nv_text, nv_xbrl_element, nv_unit_text)
               /\ UNCHANGED <<nv_text, nv_xbrl_element, nv_unit_text, nv_bare_value, modernVars, oldVars, reportVars>>

\* the same digits in parentheses become the next token, for the same concept and hint
NVParenthesize == /\ nv_value # Pending
                  /\ nv_bare_value = Pending
                  /\ IsDigitString(nv_text)
                  /\ nv_text' = InParens(nv_text)
                  /\ nv_bare_value' = nv_value
                  /\ nv_value' = Pending
                  /\ UNCHANGED <<nv_xbrl_element, nv_unit_text, modernVars, oldVars, reportVars>>

NVNext == NVNormalize \/ NVParenthesize

\* ------------------------------------------------ inputs of the modern path

TitleBalance == <<"C", "O", "N", "S", "O", "L", "I", "D", "A", "T", "E", "D", " ", "B", "A", "L", "A", "N", "C", "E", " ", "S", "H", "E", "E", "T", "S", " ", "-", " ", "U", "S", "D", " ", "(", "$", ")">>
TitleIncome == <<"C", "O", "N", "S", "O", "L", "I", "D", "A", "T", "E", "D", " ", "S", "T", "A", "T", "E", "M", "E", "N", "T", "S", " ", "O", "F", " ", "I", "N", "C", "O", "M", "E", " ", "-", " ", "U", "S", "D", " ", "(", "$", ")">>
UnitMillions == <<"$", " ", "i", "n", " ", "M", "i", "l", "l", "i", "o", "n", "s">>
Date2018 == <<"D", "e", "c", ".", " ", "2", "9", ",", " ", "2", "0", "1", "8">>
Date2017 == <<"D", "e", "c", ".", " ", "3", "0", ",", " ", "2", "0", "1", "7">>
Months12 == <<"1", "2", " ", "M", "o", "n", "t", "h", "s", " ", "E", "n", "d", "e", "d">>

TitleBarred == <<"I", "N", "C", "O", "M", "E", " ", "|", " ", "U", "S", "D">>

\* the title cells: one has a "|" in the title piece of its div, and one has
\* no-break spaces (U+00A0) at the ends of the pieces of its div
TitleCells == {TitleTh(1, TitleBalance, UnitMillions), TitleTh(1, TitleIncome, UnitMillions),
               TitleTh(2, TitleIncome, UnitMillions), TitleTh(1, TitleBarred, UnitMillions),
               TitleTh(1, TitleBalance \o <<" ">>, <<" ">> \o UnitMillions)}
Row0Cells == {Th({"th"}, 0, Months12), Th({"th"}, 2, Months12), Th({"th"}, 0, Date2018), Th({"th"}, 0, Date2017),
              Th({"th"}, 2, <<>>)}
Row1Cells == {Th({"th"}, 0, Date2018), Th({"th"}, 0, Date2017), Th({"th"}, 2, Date2017)}

HeaderRow(ths) == [th |-> ths, td |-> <<>>]

\* every table head of a title cell and up to MaxHeaderCells header cells in
\* each of its two rows (a table of one header row has no header cell in the second)
Headers == {<<HeaderRow(<<t>> \o r0), HeaderRow(r1)>> :
                t \in TitleCells, r0 \in SeqsUpTo(Row0Cells, MaxHeaderCells), r1 \in SeqsUpTo(Row1Cells, MaxHeaderCells)}

\* the heads the row loop is explored under: an income statement of two
\* periods, a balance sheet whose second date spans two columns, a balance
\* sheet whose dates are in the second row, and a head without a title cell
SampleHeaders ==
    { <<HeaderRow(<<TitleTh(1, TitleIncome, UnitMillions), Th({"th"}, 2, Months12)>>),
        HeaderRow(<<Th({"th"}, 0, Date2018), Th({"th"}, 0, Date2017)>>)>>,
      <<HeaderRow(<<TitleTh(1, TitleBalance, UnitMillions), Th({"th"}, 0, Date2018), Th({"th"}, 2, Date2017)>>),
        HeaderRow(<<>>)>>,
      <<HeaderRow(<<TitleTh(1, TitleBalance, UnitMillions), Th({"th"}, 2, <<>>)>>),
        HeaderRow(<<Th({"th"}, 0, Date2018), Th({"th"}, 0, Date2017)>>)>>,
      <<HeaderRow(<<Th({"th"}, 0, Months12)>>),
        HeaderRow(<<Th({"th"}, 0, Date2018)>>)>> }

OnclickAssets == <<"t", "o", "p", ".", "S", "h", "o", "w", ".", "s", "h", "o", "w", "A", "R", "(", " ", "t", "h", "i", "s", ",", " ", "'", "d", "e", "f", "r", "e", "f", "_", "u", "s", "-", "g", "a", "a", "p", "_", "A", "s", "s", "e", "t", "s", "'", ",", " ", "w", "i", "n", "d", "o", "w", " ", ")", ";">>

\* the data cells of the rows: two label cells of one concept, a label cell
\* whose anchor has no onclick, numeric cells, a text cell and a cell without a class
TdCells == { LabelTd(<<"T", "o", "t", "a", "l", " ", "a", "s", "s", "e", "t", "s">>, OnclickAssets),
             LabelTd(<<"A", "d", "j", "u", "s", "t", "m", "e", "n", "t">>, OnclickAssets),
             LabelTd(<<"N", "o", "t", "e">>, None),
             Td({"nump"}, <<"5">>),
             Td({"num"}, <<"(", "1", ")">>),
             Td({"text"}, <<>>),
             BareTd }

\* ------------------------------------------- get_financial_report (298-310)

NVIdle == /\ nv_text = <<>>
          /\ nv_xbrl_element = None
          /\ nv_unit_text = None
          /\ nv_value = Pending
          /\ nv_bare_value = Pending

ModernStart(heads) ==
    /\ rows \in heads
    /\ pc = "call"
    /\ dates = <<>>
    /\ period_units = <<>>
    /\ unit_text = None
    /\ is_snapshot = FALSE
    /\ exc = "none"
    /\ financial_info = None
    /\ financial_report = None
    /\ row_num = -1
    /\ index = 0
    /\ xbrl_element = None
    /\ label = None
    /\ numeric_data_available = FALSE

ModernIdle == ModernStart({<<>>}) 

\* line 326: the call of _get_statement_meta_data
GetStatementMetaData ==
    /\ pc = "call"
    /\ \E r \in {_get_statement_meta_data(rows)} :
          /\ dates' = r.dates
          /\ period_units' = r.period_units
          /\ unit_text' = r.unit_text
          /\ is_snapshot' = r.is_snapshot
          /\ exc' = r.exc
          /\ pc' = IF r.exc = "none" THEN "meta" ELSE "raised"
    /\ UNCHANGED <<rows, financial_info, financial_report, rowVars, nvVars, oldVars, reportVars>>

\* lines 324-330: the periods, one for each date
MakePeriods ==
    /\ pc = "meta"
    /\ \E r \in {BuildPeriods(dates, period_units)} :
          /\ exc' = r.exc
          /\ financial_info' = IF r.exc = "none" THEN r.periods ELSE None
          /\ pc' = IF r.exc = "none" THEN "rows" ELSE "raised"
    /\ UNCHANGED <<metaVars, financial_report, rowVars, nvVars, oldVars, reportVars>>

\* lines 338-343: the next row of the table
NextRow ==
    /\ pc = "rows"
    /\ row_num + 1 < MaxRows
    /\ row_num' = row_num + 1
    /\ index' = 0
    /\ xbrl_element' = None
    /\ label' = None
    /\ numeric_data_available' = FALSE
    /\ UNCHANGED <<metaVars, pc, exc, financial_info, financial_report, nvVars, oldVars, reportVars>>

\* lines 345-387: the next data cell of the row
NextCell ==
    /\ pc = "rows"
    /\ row_num >= 0
    /\ index < MaxCells
    /\ \E info \in TdCells :
         \E r \in {BodyCell([xbrl_element |-> xbrl_element, label |-> label,
                               numeric_data_available |-> numeric_data_available,
                               financial_info |-> financial_info, exc |-> "none"], index, info, unit_text)} :
            /\ xbrl_element' = r.xbrl_element
            /\ label' = r.label
            /\ numeric_data_available' = r.numeric_data_available
            /\ financial_info' = r.financial_info
            /\ exc' = r.exc
            /\ pc' = IF r.exc = "none" THEN "rows" ELSE "raised"
    /\ index' = index + 1
    /\ UNCHANGED <<metaVars, row_num, financial_report, nvVars, oldVars, reportVars>>

\* lines 389-395 and 309-310: the periods cleaned, the report made and returned
ReturnReport ==
    /\ pc = "rows"
    /\ financial_info' = CleanReports(financial_info, 0)
    /\ financial_report' = FinancialReport(<<"A", "C", "M", "E">>, <<"2", "0", "1", "9", "-", "0", "2", "-", "0", "1">>, financial_info')
    /\ pc' = "returned"
    /\ UNCHANGED <<metaVars, exc, rowVars, nvVars, oldVars, reportVars>>

MetaNext == GetStatementMetaData \/ MakePeriods \/ ReturnReport
ModernNext == GetStatementMetaData \/ MakePeriods \/ NextRow \/ NextCell \/ ReturnReport

\* ------------------------------------------------ inputs of the legacy path

\* the lines of a sequence of sequences of lines, in order
RECURSIVE Flatten(_)
Flatten(blocks) == IF blocks = <<>> THEN <<>> ELSE Head(blocks) \o Flatten(Tail(blocks))

\* the lines from the one at lo to the one at hi, with sep between them
RECURSIVE Glue(_, _, _, _)
Glue(lines, sep, lo, hi) ==
    IF lo > hi THEN <<>>
    ELSE IF lo = hi THEN lines[lo]
    ELSE Glue(lines, sep, lo, (lo + hi) \div 2) \o sep \o Glue(lines, sep, ((lo + hi) \div 2) + 1, hi)
\* sep.join(lines)
PageOf(lines, sep) == Glue(lines, sep, 1, Len(lines))

\* the lines of a balance sheet: a head, up to MaxItems line items, a tail
BsHead == << <<"C", "O", "N", "S", "O", "L", "I", "D", "A", "T", "E", "D", " ", "B", "A", "L", "A", "N", "C", "E", " ", "S", "H", "E", "E", "T", "S">>, <<"(", "I", "n", " ", "m", "i", "l", "l", "i", "o", "n", "s", ")">>, <<"S", "e", "p", "t", "e", "m", "b", "e", "r", " ", "2", "9", ",", " ", "2", "0", "1", "8">>, <<"A", "S", "S", "E", "T", "S", ":">>,
             <<"C", "u", "r", "r", "e", "n", "t", " ", "a", "s", "s", "e", "t", "s", ":">> >>
BsLabels == { <<"C", "a", "s", "h", " ", "a", "n", "d", " ", "c", "a", "s", "h", " ", "e", "q", "u", "i", "v", "a", "l", "e", "n", "t", "s">>, <<"A", "c", "c", "o", "u", "n", "t", "s", " ", "r", "e", "c", "e", "i", "v", "a", "b", "l", "e", ",", " ", "n", "e", "t">>, <<"C", "o", "m", "m", "o", "n", " ", "s", "t", "o", "c", "k", ",", " ", "n", "o", " ", "p", "a", "r", " ", "v", "a", "l", "u", "e">> }
BsValues == { <<"(", "1", ",", "2", "3", "4", ")">>, <<"EMDASH">> }
BsLines == {<<l, v>> : l \in BsLabels, v \in BsValues}
BsBodies == UNION {[1..n -> BsLines] : n \in 1..MaxItems}
BsTail == << <<"C", "o", "m", "m", "i", "t", "m", "e", "n", "t", "s", " ", "a", "n", "d", " ", "c", "o", "n", "t", "i", "n", "g", "e", "n", "c", "i", "e", "s">>, <<"T", "o", "t", "a", "l", " ", "l", "i", "a", "b", "i", "l", "i", "t", "i", "e", "s">>, <<"5">> >>
BsSection(body) == BsHead \o body \o BsTail

\* the lines of a statement of operations: net sales, operating expenses,
\* and at most one pair of per-share amounts under "Basic" and "Diluted"
SooHead == << <<"C", "O", "N", "S", "O", "L", "I", "D", "A", "T", "E", "D", " ", "S", "T", "A", "T", "E", "M", "E", "N", "T", "S", " ", "O", "F", " ", "O", "P", "E", "R", "A", "T", "I", "O", "N", "S">>, <<"(", "I", "n", " ", "m", "i", "l", "l", "i", "o", "n", "s", ",", " ", "e", "x", "c", "e", "p", "t", " ", "p", "e", "r", " ", "s", "h", "a", "r", "e", " ", "a", "m", "o", "u", "n", "t", "s", ")">>,
              <<"S", "e", "p", "t", "e", "m", "b", "e", "r", " ", "2", "9", ",", " ", "2", "0", "1", "8">>, <<"N", "e", "t", " ", "s", "a", "l", "e", "s">> >>
SooValues == { <<"5">>, <<"(", "1", ",", "2", "3", "4", ")">>, <<"EMDASH">>, <<"2", ".", "5">> }
SooMiddle == << <<"O", "p", "e", "r", "a", "t", "i", "n", "g", " ", "e", "x", "p", "e", "n", "s", "e", "s", ":">>, <<"T", "o", "t", "a", "l", " ", "o", "p", "e", "r", "a", "t", "i", "n", "g", " ", "e", "x", "p", "e", "n", "s", "e", "s">>, <<"5">> >>
EpsLabels == { <<"E", "a", "r", "n", "i", "n", "g", "s", " ", "p", "e", "r", " ", "c", "o", "m", "m", "o", "n", " ", "s", "h", "a", "r", "e", ":">>, <<"E", "a", "r", "n", "i", "n", "g", "s", " ", "p", "e", "r", " ", "s", "h", "a", "r", "e", ":">> }
EpsValues == { << <<"2", ".", "3", "0">>, <<"2", ".", "2", "6">> >>, << <<"EMDASH">>, <<"EMDASH">> >> }
EpsBlocks == {<<>>} \cup {<<l, <<"B", "a", "s", "i", "c">>, p[1], <<"D", "i", "l", "u", "t", "e", "d">>, p[2]>> : l \in EpsLabels, p \in EpsValues}
SooSection(v, e) == SooHead \o <<v>> \o SooMiddle \o e

\* the lines of a statement of cash flows: with or without a phrase that
\* gives the length of the period, with or without a section header before
\* the line item (a header off the list of line 180, and one on it)
SocfPhrases == { <<>>, << <<"T", "h", "r", "e", "e", " ", "M", "o", "n", "t", "h", "s", " ", "E", "n", "d", "e", "d">> >>, << <<"S", "i", "x", " ", "M", "o", "n", "t", "h", "s", " ", "E", "n", "d", "e", "d">> >> }
SocfParents == { <<>>, << <<"O", "p", "e", "r", "a", "t", "i", "n", "g", " ", "a", "c", "t", "i", "v", "i", "t", "i", "e", "s", ":">> >>, << <<"I", "n", "v", "e", "s", "t", "i", "n", "g", " ", "a", "c", "t", "i", "v", "i", "t", "i", "e", "s", ":">> >> }
SocfValues == { <<"5">>, <<"(", "1", ",", "2", "3", "4", ")">>, <<"EMDASH">> }
SocfSection(ph, pa, v) ==
    << <<"C", "O", "N", "S", "O", "L", "I", "D", "A", "T", "E", "D", " ", "S", "T", "A", "T", "E", "M", "E", "N", "T", "S", " ", "O", "F", " ", "C", "A", "S", "H", " ", "F", "L", "O", "W", "S">>, <<"(", "I", "n", " ", "m", "i", "l", "l", "i", "o", "n", "s", ")">> >> \o ph
    \o << <<"M", "a", "r", "c", "h", " ", "3", "0", ",", " ", "2", "0", "1", "9">>, <<"C", "a", "s", "h", " ", "a", "n", "d", " ", "c", "a", "s", "h", " ", "e", "q", "u", "i", "v", "a", "l", "e", "n", "t", "s", ",", " ", "b", "e", "g", "i", "n", "n", "i", "n", "g", " ", "o", "f", " ", "t", "h", "e", " ", "p", "e", "r", "i", "o", "d">>, <<"5">> >>
    \o pa \o << <<"N", "e", "t", " ", "i", "n", "c", "o", "m", "e">>, v >>

BsSample == BsSection(<<>>)
SooSample == SooSection(<<"5">>, <<>>)
SocfSample == SocfSection(<<>>, <<>>, <<"5">>)

\* the line that follows each statement of a filing
SeeNotes == << <<"S", "e", "e", " ", "a", "c", "c", "o", "m", "p", "a", "n", "y", "i", "n", "g", " ", "N", "o", "t", "e", "s", ".">> >>
\* a page number and the heading of the next page
PageFoot == << <<"4", "2">>, <<"N", "O", "T", "E", "S", " ", "T", "O", " ", "F", "I", "N", "A", "N", "C", "I", "A", "L", " ", "S", "T", "A", "T", "E", "M", "E", "N", "T", "S">> >>

\* what stands between two lines of the text of a filing: the text of an
\* empty table cell between two newlines
Gap == <<"\n", " ", "\n">>
\* other ways the lines of a filing are set apart
OtherGaps == { <<"\n">>, <<"\n", "\n">>, <<"\n", " ", "\n">>, <<"\n", " ", " ", "\n">> }

\* source_soup.text of a filing with the three statements, each followed by
\* the reference to the notes
Page(sep, soo, bs, socf) == PageOf(soo \o SeeNotes \o bs \o SeeNotes \o socf \o SeeNotes, sep)

\* every balance sheet is met with one sample of the other two statements,
\* and every statement of operations and of cash flows likewise
StatementPages ==
    {Page(Gap, SooSample, BsSection(Flatten(b)), SocfSample) : b \in BsBodies}
    \cup {Page(Gap, SooSection(v, e), BsSample, SocfSample) : v \in SooValues, e \in EpsBlocks}
    \cup {Page(Gap, SooSample, BsSample, SocfSection(ph, pa, v)) : ph \in SocfPhrases, pa \in SocfParents, v \in SocfValues}

\* the sample statements with their lines set apart in other ways
GapPages == {Page(sep, SooSample, BsSample, SocfSample) : sep \in OtherGaps}

\* filings that lack one of the three statements
PartPages == { PageOf(SooSample \o SeeNotes \o BsSample \o SeeNotes, Gap),
               PageOf(SooSample \o SeeNotes \o SocfSample \o SeeNotes, Gap),
               PageOf(BsSample \o SeeNotes \o SocfSample \o SeeNotes, Gap) }

\* filings without the reference to the notes after the statements, or
\* after the last one, with and without a page foot
BarePages == { PageOf(SooSample \o BsSample \o SocfSample, Gap),
               PageOf(SooSample \o BsSample \o SocfSample \o PageFoot, Gap),
               PageOf(SooSample \o SeeNotes \o BsSample \o SeeNotes \o SocfSample \o PageFoot, Gap) }

\* a filing whose headings have no spaces, whose lines are set apart by
\* no-break spaces, and whose balance sheet has a closing parenthesis on a
\* line of its own, a doubled space and a typographic apostrophe
WrappedPage ==
    Page(<<"\n", " ", "\n">>, [SooSample EXCEPT ![1] = <<"C", "O", "N", "S", "O", "L", "I", "D", "A", "T", "E", "D", " ", "S", "T", "A", "T", "E", "M", "E", "N", "T", "S", "O", "F", "O", "P", "E", "R", "A", "T", "I", "O", "N", "S">>],
         << <<"C", "O", "N", "S", "O", "L", "I", "D", "A", "T", "E", "D", " ", "B", "A", "L", "A", "N", "C", "E", "S", "H", "E", "E", "T", "S">> >> \o Tail(BsHead)
            \o << <<"C", "a", "s", "h", " ", "a", "n", "d", " ", "c", "a", "s", "h", " ", " ", "e", "q", "u", "i", "v", "a", "l", "e", "n", "t", "s">>, <<"(", "1", ",", "2", "3", "4", "\n", "\n", ")">>, <<"S", "h", "a", "r", "e", "h", "o", "l", "d", "e", "r", "s", "RSQUO", " ", "e", "q", "u", "i", "t", "y">>, <<"5">> >> \o BsTail,
         [SocfSample EXCEPT ![1] = <<"C", "O", "N", "S", "O", "L", "I", "D", "A", "T", "E", "D", " ", "S", "T", "A", "T", "E", "M", "E", "N", "T", "S", "O", "F", " ", "C", "A", "S", "H", "F", "L", "O", "W", "S">>])

\* the texts of the filings
Pages == StatementPages \cup GapPages \cup PartPages \cup BarePages \cup {WrappedPage}

\* --------------------------------------------------- get_old_financial_report

OldStart(active) ==
    /\ old_pc = IF active THEN "call" ELSE "idle"
    /\ old_exc = "none"
    /\ months = NumOf(Num(DefaultMonths))
    /\ IF active THEN report_text \in Pages ELSE report_text = None
    /\ bs_text = None
    /\ soo_text = None
    /\ socf_text = None
    /\ balance_sheet_info = Absent
    /\ income_statement_info = Absent
    /\ cash_flow_info = Absent
    /\ old_financial_report = Absent

OldIdle == OldStart(FALSE)

\* lines 258-282: the text of the filing is put in order and the three
\* statements are cut out of it. A statement whose heading is not in the
\* text is an IndexError, a cash-flow statement without an end a
\* StopIteration, an empty statement a RuntimeError; a section the call has
\* not come to stays None.
SegmentReport ==
    /\ old_pc = "call"
    /\ \E t \in {NormalizeReport(report_text)} : \E r \in {CutReport(t)} :
          /\ report_text' = t
          /\ soo_text' = r.soo_text
          /\ bs_text' = r.bs_text
          /\ socf_text' = r.socf_text
          /\ old_exc' = r.exc
          /\ old_pc' = IF r.exc = "none" THEN "segmented" ELSE "raised"
    /\ UNCHANGED <<months, balance_sheet_info, income_statement_info, cash_flow_info, old_financial_report,
                   nvVars, modernVars, reportVars>>

\* line 283
GetBalanceSheet ==
    /\ old_pc = "segmented"
    /\ \E r \in {_get_balance_sheet(bs_text, months)} :
          /\ balance_sheet_info' = r.info
          /\ old_exc' = r.exc
          /\ old_pc' = IF r.exc = "none" THEN "bs" ELSE "raised"
    /\ UNCHANGED <<months, report_text, bs_text, soo_text, socf_text, income_statement_info, cash_flow_info,
                   old_financial_report, nvVars, modernVars, reportVars>>

\* line 284
GetIncomeStatement ==
    /\ old_pc = "bs"
    /\ \E r \in {_get_income_statement(soo_text, months)} :
          /\ income_statement_info' = r.info
          /\ old_exc' = r.exc
          /\ old_pc' = IF r.exc = "none" THEN "soo" ELSE "raised"
    /\ UNCHANGED <<months, report_text, bs_text, soo_text, socf_text, balance_sheet_info, cash_flow_info,
                   old_financial_report, nvVars, modernVars, reportVars>>

\* lines 285-287
GetMonths ==
    /\ old_pc = "soo"
    /\ \E m \in {MonthsAfter(months, socf_text)} :
          IF IsRaise(m) THEN old_pc' = "raised" /\ old_exc' = m.exc /\ UNCHANGED months
          ELSE old_pc' = "months" /\ months' = m /\ UNCHANGED old_exc
    /\ UNCHANGED <<report_text, bs_text, soo_text, socf_text, balance_sheet_info, income_statement_info, cash_flow_info,
                   old_financial_report, nvVars, modernVars, reportVars>>

\* line 288
GetCashFlow ==
    /\ old_pc = "months"
    /\ \E r \in {_get_cash_flow(socf_text, months)} :
          /\ cash_flow_info' = r.info
          /\ old_exc' = r.exc
          /\ old_pc' = IF r.exc = "none" THEN "socf" ELSE "raised"
    /\ UNCHANGED <<months, report_text, bs_text, soo_text, socf_text, balance_sheet_info, income_statement_info,
                   old_financial_report, nvVars, modernVars, reportVars>>

\* lines 289 and 293-295
ReturnOldReport ==
    /\ old_pc = "socf"
    /\ old_pc' = "returned"
    /\ old_financial_report' = FinancialReport(<<"A", "C", "M", "E">>, <<"2", "0", "1", "9", "-", "0", "2", "-", "0", "1">>,
                                               <<balance_sheet_info, income_statement_info, cash_flow_info>>)
    /\ UNCHANGED <<old_exc, months, report_text, bs_text, soo_text, socf_text, balance_sheet_info, income_statement_info,
                   cash_flow_info, nvVars, modernVars, reportVars>>

OldNext == SegmentReport \/ GetBalanceSheet \/ GetIncomeStatement \/ GetMonths \/ GetCashFlow \/ ReturnOldReport

\* ------------------------------------------------- FinancialReport objects

\* the identity of the list that is the default of the parameter reports: the
\* [] of line 59 is evaluated once, when the def is executed
DefaultReports == 1

\* add_financial_info (69-70): self.reports.append(financial_info), on the list
\* object the report holds
add_financial_info(lists, self, info) == [lists EXCEPT ![self.reports] = Append(@, info)]

\* the periods a caller appends, and the lists a caller constructs a report with
\* (each a list of its own, made for the call)
SamplePeriods == { FinancialInfo([ok |-> TRUE, y |-> 2018, m |-> 12, d |-> 29], NumOf(Num(12)), <<>>),
                   FinancialInfo([ok |-> TRUE, y |-> 2019, m |-> 3, d |-> 30], Absent, <<>>) }
SampleReportLists == { <<>> } \cup { <<p>> : p \in SamplePeriods }

\* the class has been defined: the default list is there, empty, and no report
ReportsStart ==
    /\ list_objects = << <<>> >>
    /\ report_objects = <<>>
    /\ report_call = "none"

\* FinancialReport(company, date_filed): reports is the default (59-67)
NewReport ==
    /\ Len(report_objects) < MaxReports
    /\ report_objects' = Append(report_objects, FinancialReport(<<"A", "C", "M", "E">>, <<"2", "0", "1", "9", "-", "0", "2", "-", "0", "1">>, DefaultReports))
    /\ report_call' = "__init__"
    /\ UNCHANGED <<list_objects, nvVars, modernVars, oldVars>>

\* FinancialReport(company, date_filed, reports), reports a list of the caller (59-67)
NewReportWith ==
    /\ Len(report_objects) < MaxReports
    /\ \E reports \in SampleReportLists :
          /\ list_objects' = Append(list_objects, reports)
          /\ report_objects' = Append(report_objects,
                                      FinancialReport(<<"A", "C", "M", "E">>, <<"2", "0", "1", "9", "-", "0", "2", "-", "0", "1">>, Len(list_objects) + 1))
    /\ report_call' = "__init__(reports)"
    /\ UNCHANGED <<nvVars, modernVars, oldVars>>

\* report.add_financial_info(financial_info) on a report made before (69-70)
AddFinancialInfo ==
    /\ \E self \in 1..Len(report_objects) : \E info \in SamplePeriods :
          /\ Len(list_objects[report_objects[self].reports]) < MaxPeriods
          /\ list_objects' = add_financial_info(list_objects, report_objects[self], info)
    /\ report_call' = "add_financial_info"
    /\ UNCHANGED <<report_objects, nvVars, modernVars, oldVars>>

ReportsNext == NewReport \/ NewReportWith \/ AddFinancialInfo

\* ------------------------------------------------------- the specifications

\* calls of the value normalizer
InitValue == NVStart /\ ModernIdle /\ OldIdle /\ ReportsStart
SpecValue == InitValue /\ [][NVNext]_vars
\* get_financial_report on every small table head, the table having no data cell
InitMeta == NVIdle /\ ModernStart(Headers) /\ OldIdle /\ ReportsStart
SpecMeta == InitMeta /\ [][MetaNext]_vars
\* get_financial_report on tables of a few heads and every small body
InitModern == NVIdle /\ ModernStart(SampleHeaders) /\ OldIdle /\ ReportsStart
SpecModern == InitModern /\ [][ModernNext]_vars
\* get_old_financial_report on every triple of small statement sections
InitLegacy == NVIdle /\ ModernIdle /\ OldStart(TRUE) /\ ReportsStart
SpecLegacy == InitLegacy /\ [][OldNext]_vars
\* constructions of FinancialReport objects and appends to them
InitReports == NVIdle /\ ModernIdle /\ OldIdle /\ ReportsStart
SpecReports == InitReports /\ [][ReportsNext]_vars



\* ------------------------------------------------- claims: value normalizer

\* the text with everything but digits and decimal points taken out
CleanedText(text) == SelectSeq(text, LAMBDA c : IsDigit(c) \/ c = ".")
\* the signed magnitude the text denotes, before any unit scaling
SignedAmount(text) == IF Contains(text, <<"(">>) THEN Neg(PyFloat(CleanedText(text)).v)
                      ELSE PyFloat(CleanedText(text)).v

\* C1: the value normalizer never raises: every call returns a number or the
\* absent value, and returns absent exactly when the cleaned text does not
\* parse as a number. The code raises TypeError when the row has no concept
\* identifier and AttributeError when the table has no unit-scale hint.
C1_NormalizerNeverRaises ==
    nv_value # Pending =>
        /\ nv_value.kind \in {"num", "none"}
        /\ (nv_value = Absent <=> ~FloatParses(CleanedText(nv_text)))

\* C2: for a digit string d with optional thousands separators, and a fixed
\* concept identifier and unit-scale hint, normalizing "(d)" gives a number
\* exactly when normalizing d does, and that number is the negation.
C2_ParenthesesNegate ==
    (nv_value # Pending /\ nv_bare_value # Pending) =>
        /\ IsNum(nv_bare_value) <=> IsNum(nv_value)
        /\ IsNum(nv_bare_value) =>
               nv_value = Neg(nv_bare_value)

\* "(1,234)" has given -1234 after "1,234" gave 1234 (a per-share concept: unscaled)
C2_Witness ==
    /\ nv_text = InParens(<<"1", ",", "2", "3", "4">>)
    /\ nv_bare_value = NumOf(Num(1234))
    /\ nv_value = NumOf(Num(-1234))

\* the scale words that follow the prefix ("shares in " or "$ in ") in the hint
ClauseWords(hint, prefix) ==
    {w \in {<<"t", "h", "o", "u", "s", "a", "n", "d", "s">>,
            <<"m", "i", "l", "l", "i", "o", "n", "s">>,
            <<"b", "i", "l", "l", "i", "o", "n", "s">>} : Contains(Lower(hint), prefix \o w)}
WordExponent(w) == IF w = <<"t", "h", "o", "u", "s", "a", "n", "d", "s">> THEN 3
                   ELSE IF w = <<"m", "i", "l", "l", "i", "o", "n", "s">> THEN 6 ELSE 9
\* the power of ten the claim prescribes
ClaimedExponent(concept, hint) ==
    LET shares == Contains(concept, <<"S", "h", "a", "r", "e", "s">>)
        words == ClauseWords(hint, IF shares THEN <<"s", "h", "a", "r", "e", "s", " ", "i", "n", " ">>
                                        ELSE <<"$", " ", "i", "n", " ">>)
    IN IF Contains(concept, <<"P", "e", "r", "S", "h", "a", "r", "e">>) THEN 0
       ELSE IF words = {} THEN 0
       ELSE WordExponent(CHOOSE w \in words : TRUE)

\* C3: a "PerShare" concept is never scaled; otherwise the multiplier comes from
\* the "shares in X" clause of the hint for a share count and from the "$ in X"
\* clause for any other concept, thousands, millions and billions giving 10^3,
\* 10^6 and 10^9, and a missing or unrecognized clause giving no multiplication.
C3_UnitScaling ==
    IsNum(nv_value) =>
        /\ Cardinality(ClauseWords(nv_unit_text, <<"$", " ", "i", "n", " ">>)) <= 1
        /\ Cardinality(ClauseWords(nv_unit_text, <<"s", "h", "a", "r", "e", "s", " ", "i", "n", " ">>)) <= 1
        /\ nv_value = NumOf(FloatScale(SignedAmount(nv_text), ClaimedExponent(nv_xbrl_element, nv_unit_text)))

\* a share count under "shares in Thousands, $ in Millions" was scaled by 1000
C3_Witness ==
    /\ nv_text = <<"5">>
    /\ Contains(nv_xbrl_element, <<"S", "h", "a", "r", "e", "s">>)
    /\ nv_unit_text = <<"s", "h", "a", "r", "e", "s", " ", "i", "n", " ", "T", "h", "o", "u", "s", "a", "n", "d", "s",
                        ",", " ", "$", " ", "i", "n", " ", "M", "i", "l", "l", "i", "o", "n", "s">>
    /\ nv_value = NumOf(Dec(5, 3))


\* ----------------------------------------------------- claims: modern path

IsDateCell(info) == /\ info.has_class /\ "th" \in info.class /\ info.colspan \in {0, 1}
                    /\ StrptimeAbbr(info.text).ok
IsBalanceTitleCell(info) == /\ info.has_class /\ "tl" \in info.class /\ info.colspan \in {0, 1}
                            /\ info.div # None /\ Len(info.div) >= 2
                            /\ Contains(Lower(info.div[1]), <<"b", "a", "l", "a", "n", "c", "e">>)

\* the head of the claim: a balance-sheet title cell and one empty header cell
\* of colspan 2 in the first row, two dated header cells in the second
TwoRowSnapshotHead ==
    /\ Len(rows) = 2
    /\ Len(rows[1].th) = 2
    /\ IsBalanceTitleCell(rows[1].th[1])
    /\ rows[1].th[2] = Th({"th"}, 2, <<>>)
    /\ Len(rows[2].th) = 2
    /\ IsDateCell(rows[2].th[1]) /\ IsDateCell(rows[2].th[2])

\* the head the code reads a snapshot from: the title cell and the two dated
\* header cells in the first row, no header cell in the second
OneRowSnapshotHead ==
    /\ Len(rows) = 2
    /\ Len(rows[1].th) = 3
    /\ IsBalanceTitleCell(rows[1].th[1])
    /\ IsDateCell(rows[1].th[2]) /\ IsDateCell(rows[1].th[3])
    /\ rows[2].th = <<>>

\* C4 as the claim states it: for the two-row snapshot head the table is
\* classified as a snapshot statement and the periods built (328-330) are
\* exactly two, months absent, dated with the two second-row dates in order.
C4_TwoRowSnapshotSucceeds ==
    (TwoRowSnapshotHead /\ pc \notin {"call", "meta"}) =>
        /\ is_snapshot
        /\ pc # "raised"
        /\ pc = "rows" =>
             financial_info = << FinancialInfo(StrptimeAbbr(rows[2].th[1].text), Absent, <<>>),
                                 FinancialInfo(StrptimeAbbr(rows[2].th[2].text), Absent, <<>>) >>

\* C4, amended: the two-row snapshot head is classified as a snapshot statement
\* and fails with the metadata parsing error (four dates, of which two are the
\* empty text of the first row, against two period entries); with the two
\* dates in two header cells of the first row and no header cell in the
\* second, the periods built are exactly two, months absent, dated with the
\* two dates in column order.
C4_SnapshotDatesComeFromRowOne ==
    /\ (TwoRowSnapshotHead /\ pc # "call") =>
          /\ is_snapshot
          /\ pc = "raised" /\ exc = "MetaDataParsingException"
          /\ dates = <<rows[1].th[2].text, rows[1].th[2].text, rows[2].th[1].text, rows[2].th[2].text>>
          /\ period_units = <<Absent, Absent>>
          /\ financial_info = None /\ financial_report = None
    /\ (OneRowSnapshotHead /\ pc # "call") =>
          /\ is_snapshot
          /\ pc # "raised" /\ exc = "none"
          /\ pc = "rows" =>
               financial_info = << FinancialInfo(StrptimeAbbr(rows[1].th[2].text), Absent, <<>>),
                                   FinancialInfo(StrptimeAbbr(rows[1].th[3].text), Absent, <<>>) >>

\* two periods of different dates have been built from a one-row snapshot head
C4_Witness ==
    /\ OneRowSnapshotHead
    /\ pc = "rows"
    /\ Len(financial_info) = 2
    /\ financial_info[1].date = [ok |-> TRUE, y |-> 2018, m |-> 12, d |-> 29]
    /\ financial_info[2].date = [ok |-> TRUE, y |-> 2017, m |-> 12, d |-> 30]
    /\ financial_info[1].months = Absent /\ financial_info[2].months = Absent

\* C5: when the body extractor finishes, the periods returned are exactly the
\* periods that received an element, in their column order: no returned period
\* has an empty element mapping.
C5_EmptyPeriodsDropped ==
    [][pc' = "returned" =>
          financial_report'.reports = SelectSeq(financial_info, LAMBDA fi : fi.map # <<>>)]_vars

\* C7: when the dates and the period-length entries recovered from the head
\* differ in number, the call ends with the metadata parsing error and neither
\* periods nor a report exist; when the metadata extractor returns, the two
\* sequences have the same length.
C7_MismatchIsFatal ==
    pc # "call" =>
        /\ (MetaScan(rows).exc = "none" /\ Len(dates) # Len(period_units)) =>
              /\ pc = "raised" /\ exc = "MetaDataParsingException"
              /\ financial_info = None /\ financial_report = None
        /\ pc \in {"meta", "rows", "returned"} => Len(dates) = Len(period_units)
        /\ pc = "raised" => financial_report = None

\* a head of three period lengths and two dates has ended in the parsing error
C7_Witness ==
    /\ pc = "raised" /\ exc = "MetaDataParsingException"
    /\ Len(period_units) = 3 /\ Len(dates) = 2
    /\ financial_report = None


\* ----------------------------------------------------- claims: legacy path

\* the three statements have been cut out of the text of the filing
Segmented == socf_text # None /\ old_exc # "RuntimeError"

\* the call has gone into the extractor of the section, and has come out of
\* it with a period or with an exception
BsAttempted == \/ old_pc \in {"bs", "soo", "months", "socf", "returned"}
               \/ old_pc = "raised" /\ Segmented /\ balance_sheet_info = Absent
SooAttempted == \/ old_pc \in {"soo", "months", "socf", "returned"}
                \/ old_pc = "raised" /\ balance_sheet_info # Absent /\ income_statement_info = Absent
SocfAttempted == \/ old_pc \in {"socf", "returned"}
                 \/ /\ old_pc = "raised" /\ income_statement_info # Absent /\ cash_flow_info = Absent
                    /\ ~IsRaise(MonthsAfter(months, socf_text))

\* C6: in every report of either path a balance-sheet (snapshot) period has
\* months absent and an income-statement or cash-flow period has months; the
\* balance-sheet period of the legacy path has months absent.
C6_SnapshotMonthsAbsent ==
    /\ pc = "returned" => \A i \in 1..Len(financial_report.reports) :
                              (financial_report.reports[i].months = Absent) <=> is_snapshot
    /\ old_pc = "returned" => /\ old_financial_report.reports[1].months = Absent
                              /\ old_financial_report.reports[2].months # Absent
                              /\ old_financial_report.reports[3].months # Absent

\* the period length the cash-flow section declares, 12 when it declares none
DeclaredMonths(section) == IF MonthsWord(section) = None THEN NumOf(Num(12)) ELSE word_to_num(MonthsWord(section))

\* C8: the three periods of a legacy report (balance sheet, income statement,
\* cash flow) all carry the period length N of the "<N> Months Ended" of the
\* cash-flow section, and all carry 12 when the section has no such phrase.
C8_UniformPeriodLength ==
    old_pc = "returned" => \A i \in 1..3 : old_financial_report.reports[i].months = DeclaredMonths(socf_text)

\* the positions of the first-met label lines whose value line is an em-dash
DashRows(lines) == {k \in 1..(Len(lines) - 1) : /\ lines[k + 1] = <<"EMDASH">>
                                                /\ LooksLikeLabel(lines[k])
                                                /\ lines[k] \notin { <<"B", "a", "s", "i", "c">>, <<"D", "i", "l", "u", "t", "e", "d">> }
                                                /\ IndexOf(lines, lines[k]) = k}
\* the positions of the label lines followed by "Basic", a value, "Diluted", a value
PairRows(lines) == {k \in 1..(Len(lines) - 4) : /\ lines[k + 1] = <<"B", "a", "s", "i", "c">>
                                                /\ lines[k + 3] = <<"D", "i", "l", "u", "t", "e", "d">>
                                                /\ LooksLikeLabel(lines[k])}
\* the period has the key, with the value 0
IsZero(info, key) == info # Absent /\ HasKey(info.map, key) /\ Lookup(info.map, key).value = Num(0)

\* C9: in the legacy path a value line that is an em-dash gives its line item
\* the value 0, never an absent value and never a failure: in the balance
\* sheet, in the cash flow, in the ordinary rows of the income statement and
\* in the rows read from under a "Basic"/"Diluted" pair.
C9_DashIsZero ==
    /\ BsAttempted => \A k \in DashRows(ItemsOf(bs_text)) : IsZero(balance_sheet_info, BsKey(ItemsOf(bs_text)[k]))
    /\ SocfAttempted => \A k \in DashRows(ItemsOf(socf_text)) :
                            IsZero(cash_flow_info, CfItemName(None, ItemsOf(socf_text)[k]))
    /\ SooAttempted => /\ \A k \in DashRows(ItemsOf(soo_text)) :
                              IsZero(income_statement_info, RemoveFootnotes(ItemsOf(soo_text)[k]))
                       /\ \A k \in PairRows(ItemsOf(soo_text)) :
                              /\ ItemsOf(soo_text)[k + 2] = <<"EMDASH">>
                                     => IsZero(income_statement_info, Strip(ItemsOf(soo_text)[k], {":"}))
                              /\ ItemsOf(soo_text)[k + 4] = <<"EMDASH">>
                                     => IsZero(income_statement_info,
                                               Strip(ItemsOf(soo_text)[k], {":"}) \o <<" ", "D", "i", "l", "u", "t", "e", "d">>)

\* a label of per-share amounts, such as "Earnings per common share"
NamesPerShare(key) == Contains(Lower(key), <<"p", "e", "r", " ">>) /\ Contains(Lower(key), <<"s", "h", "a", "r", "e">>)

\* the period has the key, with the amount of the value line times 10^k
IsScaled(info, key, line, k) ==
    /\ HasKey(info.map, key)
    /\ PyFloat(BareDigits(line)).ok => Lookup(info.map, key).value = Trunc(FloatScale(PyFloat(BareDigits(line)).v, k))

\* C10: in the legacy income statement a label line followed by "Basic" gives
\* two entries, keyed by the label without its trailing colon and by that key
\* with " Diluted", read from the line after "Basic" and the line after
\* "Diluted"; per-share amounts are multiplied by 1000 whatever the scale of
\* the section. "Earnings per common share:", "Basic", "2.30", "Diluted",
\* "2.26" in a section in millions give 2300 and 2260.
C10_PerSharePair ==
    income_statement_info # Absent =>
        \A k \in PairRows(ItemsOf(soo_text)) :
            /\ NamesPerShare(ItemsOf(soo_text)[k]) =>
                   /\ IsScaled(income_statement_info, Strip(ItemsOf(soo_text)[k], {":"}), ItemsOf(soo_text)[k + 2], 3)
                   /\ IsScaled(income_statement_info, Strip(ItemsOf(soo_text)[k], {":"}) \o <<" ", "D", "i", "l", "u", "t", "e", "d">>,
                               ItemsOf(soo_text)[k + 4], 3)
            /\ /\ ItemsOf(soo_text)[k] = <<"E", "a", "r", "n", "i", "n", "g", "s", " ", "p", "e", "r", " ", "c", "o", "m", "m", "o", "n", " ", "s", "h", "a", "r", "e", ":">>
               /\ ItemsOf(soo_text)[k + 2] = <<"2", ".", "3", "0">>
               /\ ItemsOf(soo_text)[k + 4] = <<"2", ".", "2", "6">>
               => /\ Lookup(income_statement_info.map, <<"E", "a", "r", "n", "i", "n", "g", "s", " ", "p", "e", "r", " ", "c", "o", "m", "m", "o", "n", " ", "s", "h", "a", "r", "e">>).value = Num(2300)
                  /\ Lookup(income_statement_info.map, <<"E", "a", "r", "n", "i", "n", "g", "s", " ", "p", "e", "r", " ", "c", "o", "m", "m", "o", "n", " ", "s", "h", "a", "r", "e", " ", "D", "i", "l", "u", "t", "e", "d">>).value = Num(2260)

\* ------------------------------------------- claims: the modern row loop

\* the values a data cell of the tables can give the current row
CellValues == {_process_financial_value(Strip(c.text, Whitespace), xbrl_element, unit_text) : c \in TdCells}

\* C11: in the modern body extractor no step of the row loop changes an
\* element a period already has: a concept that has an element in a period
\* keeps the label and the value of the first row that gave it a value in
\* that column. A step writes to one period at most, the one at column
\* position (cell position - 1), and what it writes is a new element for the
\* row's concept, with the row's label and the value of the cell.
C11_FirstSeenWins ==
    [][(pc = "rows" /\ pc' # "returned") =>
         /\ Len(financial_info') = Len(financial_info)
         /\ \A p \in 1..Len(financial_info) :
              /\ financial_info'[p].date = financial_info[p].date
              /\ financial_info'[p].months = financial_info[p].months
              /\ Len(financial_info'[p].map) >= Len(financial_info[p].map)
              /\ \A k \in 1..Len(financial_info[p].map) : financial_info'[p].map[k] = financial_info[p].map[k]
              /\ financial_info'[p].map # financial_info[p].map =>
                   /\ p - 1 = index - 1
                   /\ ~HasKey(financial_info[p].map, xbrl_element)
                   /\ \E v \in CellValues :
                        /\ IsNum(v)
                        /\ financial_info'[p].map =
                               Append(financial_info[p].map,
                                      [key |-> xbrl_element, elem |-> FinancialElement(label, v)])]_vars

\* the second row has given a value in the first period's column for the
\* concept the first row had given one for; the element is the first row's
C11_Witness ==
    /\ pc = "rows"
    /\ row_num = 1 /\ index = 2
    /\ label = <<"A", "d", "j", "u", "s", "t", "m", "e", "n", "t">>
    /\ numeric_data_available
    /\ Len(financial_info) >= 1
    /\ HasKey(financial_info[1].map, xbrl_element)
    /\ Lookup(financial_info[1].map, xbrl_element).label = <<"T", "o", "t", "a", "l", " ", "a", "s", "s", "e", "t", "s">>
    /\ Len(financial_info[1].map) = 1

\* ------------------------------------------- claims: the cash-flow headers

\* lines 180-181: the section headers the cash-flow extractor lists
PossibleParentHeaders == { <<"O", "p", "e", "r", "a", "t", "i", "n", "g", " ", "A", "c", "t", "i", "v", "i", "t", "i", "e", "s", ":">>, <<"I", "n", "v", "e", "s", "t", "i", "n", "g", " ", "a", "c", "t", "i", "v", "i", "t", "i", "e", "s", ":">>, <<"F", "i", "n", "a", "n", "c", "i", "n", "g", " ", "a", "c", "t", "i", "v", "i", "t", "i", "e", "s", ":">>, <<"S", "u", "p", "p", "l", "e", "m", "e", "n", "t", "a", "l", " ", "c", "a", "s", "h", " ", "f", "l", "o", "w", " ", "d", "i", "s", "c", "l", "o", "s", "u", "r", "e", ":">> }

\* the positions of the line items of a cash-flow section: the first-met label
\* lines from the opening cash balance on that are no header
ItemRows(lines) == {k \in 1..Len(lines) : /\ \E i \in 1..Len(CfFromOpening(LabelItems(lines))) :
                                                CfFromOpening(LabelItems(lines))[i] = lines[k]
                                          /\ ~EndsWith(lines[k], <<":">>)
                                          /\ IndexOf(lines, lines[k]) = k}
\* the positions of the listed headers of a section
HeaderRows(lines) == {j \in 1..Len(lines) : lines[j] \in PossibleParentHeaders}

\* C12: in the legacy cash-flow extractor a listed section header becomes the
\* current parent and is not a line item itself; a line item met after a
\* listed header is keyed by its plain label, and a line item met before any
\* listed header by the composite key "parent - label" with the absent parent.
C12_ParentTracking ==
    cash_flow_info # Absent =>
        /\ \A j \in HeaderRows(ItemsOf(socf_text)) :
              /\ ~HasKey(cash_flow_info.map, ItemsOf(socf_text)[j])
              /\ ~HasKey(cash_flow_info.map, CfItemName(None, ItemsOf(socf_text)[j]))
        /\ \A k \in ItemRows(ItemsOf(socf_text)) :
              IF \E j \in HeaderRows(ItemsOf(socf_text)) : j < k
              THEN HasKey(cash_flow_info.map, ItemsOf(socf_text)[k])
              ELSE HasKey(cash_flow_info.map, CfItemName(None, ItemsOf(socf_text)[k]))

\* ------------------------------------------- claims: FinancialReport objects

\* the periods of the report made r-th, given the list objects and the reports
PeriodsOf(lists, objects, r) == lists[objects[r].reports]

\* C13: appending a period to a report makes that report's periods grow by
\* exactly that period at the end and leaves the periods of every other
\* report as they were, also of reports constructed without periods; and a
\* report constructed without periods starts with no period, whatever was
\* constructed and appended before.
C13_AppendFrame ==
    [][/\ report_call' = "add_financial_info" =>
             \E r \in 1..Len(report_objects) : \E info \in SamplePeriods :
                 /\ PeriodsOf(list_objects', report_objects', r) = Append(PeriodsOf(list_objects, report_objects, r), info)
                 /\ \A q \in 1..Len(report_objects) :
                        q # r => PeriodsOf(list_objects', report_objects', q) = PeriodsOf(list_objects, report_objects, q)
       /\ report_call' = "__init__" =>
             PeriodsOf(list_objects', report_objects', Len(report_objects')) = <<>>]_vars
====
